---- MODULE Spec2Model ----
(***************************************************************************)
(* State-machine model of the Workspace View of the agentic chat front    *)
(* end (WorkspacePanel.tsx): the polled file tree, the folder expansion   *)
(* set, the file preview, download, delete and upload, and the requests   *)
(* that are in flight between the component and the backend.              *)
(*                                                                         *)
(* Conventions.  A nullable value of the program (T | null) is a sequence *)
(* of length at most one: <<>> is null, <<v>> is v.  Strings are strings;  *)
(* where the program computes on the characters of one (a file name),     *)
(* CharsOf gives them as a sequence of one-character strings.              *)
(* Every await of the program is a suspension point: the part of a        *)
(* handler before the await is one action, the continuation that runs     *)
(* when the request settles is another.                                    *)
(***************************************************************************)
EXTENDS Integers, Sequences, FiniteSets, TLC

\* Most requests in flight at once (all kinds together).
MaxInFlight == 2

VARIABLES
    mounted,            \* the WorkspacePanel instance exists (App renders it)
    isOpen,             \* prop isOpen (App's workspacePanelOpen)
    fileTree,           \* useState<FileNode[]>
    expandedFolders,    \* useState<Set<string>>
    selectedFile,       \* useState<{path, content, name} | null>
    loading,            \* useState(false)
    error,              \* useState<string | null>
    deleteConfirmation, \* useState<{file, isOpen} | null>
    isDragOver,         \* useState(false)
    intervals,          \* the live setInterval timers of the polling effect: their delays
    net,                \* requests in flight, in the order they were issued
    notice,             \* the alert() the latest step showed: its text, <<>> if none
    gate,               \* the module-level state of the workspace call throttle
    objectUrls,         \* how many object URLs were created, and how many revoked
    history,            \* the kinds of request that record the state they were issued in
    dragEvent,          \* the drag event the panel handled last: <<>> if none
    hasError,           \* ErrorBoundary's state.hasError: the fallback is shown
    urlMode,            \* the mode parameter of the page's URL, "" if absent
    reloads,            \* how many times window.location.reload() was called
    conversations,         \* LeftSidebar: useState<Conversation[]>
    selectedConversation,  \* LeftSidebar: useState<string | null>
    sidebarNet,            \* LeftSidebar: its requests in flight, in issue order
    issued,                \* LeftSidebar: how many requests it has issued
    now                    \* Date.now(), in milliseconds since the page loaded

vars == <<mounted, isOpen, fileTree, expandedFolders, selectedFile, loading,
          error, deleteConfirmation, isDragOver, intervals, net, notice, gate,
          objectUrls, history, dragEvent, hasError, urlMode, reloads,
          conversations, selectedConversation, sidebarNet, issued, now>>

\* The LeftSidebar's conversations, and the clock its ids are made from.
sidebarVars == <<conversations, selectedConversation, sidebarNet, issued, now>>

\* The conversations as useState creates them, no request of the sidebar in
\* flight.
SidebarIdle ==
    /\ conversations = <<>>
    /\ selectedConversation = <<>>
    /\ sidebarNet = <<>>
    /\ issued = 0
    /\ now = 1

\* What the panel's handlers never write: the drag event being delivered, and
\* the App's error boundary, the URL and the page loads.
appVars == <<dragEvent, hasError, urlMode, reloads, sidebarVars>>

-----------------------------------------------------------------------------
(* File names, and the string functions the preview gate uses.             *)

UpperCaseLetters == <<"A","B","C","D","E","F","G","H","I","J","K","L","M",
                      "N","O","P","Q","R","S","T","U","V","W","X","Y","Z">>
LowerCaseLetters == <<"a","b","c","d","e","f","g","h","i","j","k","l","m",
                      "n","o","p","q","r","s","t","u","v","w","x","y","z">>

\* String.prototype.toLowerCase on one character.
toLowerCaseChar(c) ==
    IF \E i \in DOMAIN UpperCaseLetters : UpperCaseLetters[i] = c
    THEN LowerCaseLetters[CHOOSE i \in DOMAIN UpperCaseLetters : UpperCaseLetters[i] = c]
    ELSE c

\* String.prototype.toLowerCase.
toLowerCase(s) == [i \in 1..Len(s) |-> toLowerCaseChar(s[i])]

\* String.prototype.endsWith.
endsWith(s, suffix) ==
    /\ Len(suffix) <= Len(s)
    /\ SubSeq(s, Len(s) - Len(suffix) + 1, Len(s)) = suffix

\* const textExtensions = ['.txt', '.md', ...]
textExtensions ==
    << <<".","t","x","t">>, <<".","m","d">>, <<".","j","s","o","n">>,
       <<".","y","a","m","l">>, <<".","y","m","l">>, <<".","l","o","g">>,
       <<".","c","s","v">>, <<".","h","t","m","l">>, <<".","c","s","s">>,
       <<".","j","s">>, <<".","t","s">>, <<".","p","y">> >>

\* The characters of the file names in use (a JavaScript string, indexed).
CharsOf(name) ==
    CASE name = "notes.md"  -> <<"n","o","t","e","s",".","m","d">>
      [] name = "image.png" -> <<"i","m","a","g","e",".","p","n","g">>
      [] name = "README.MD" -> <<"R","E","A","D","M","E",".","M","D">>
      [] name = "md"        -> <<"m","d">>
      [] name = "docs"      -> <<"d","o","c","s">>

\* The gate without the toLowerCase call.
isTextFileCaseSensitive(name) ==
    \E k \in DOMAIN textExtensions : endsWith(CharsOf(name), textExtensions[k])

\* const isTextFile = textExtensions.some(ext => file.name.toLowerCase().endsWith(ext))
isTextFile(name) ==
    LET lowered == toLowerCase(CharsOf(name))
    IN  \E k \in DOMAIN textExtensions : endsWith(lowered, textExtensions[k])

-----------------------------------------------------------------------------
(* FileNode values and the tree snapshots the backend serves.              *)

FileOf(name, path) == [name |-> name, path |-> path, type |-> "file", children |-> <<>>]
DirOf(name, path, children) ==
    [name |-> name, path |-> path, type |-> "directory", children |-> children]

NotesMd  == FileOf("notes.md", "docs/notes.md")
ImagePng == FileOf("image.png", "docs/image.png")
ReadmeMD == FileOf("README.MD", "README.MD")
PlainMd  == FileOf("md", "md")

TreeA == << DirOf("docs", "docs", <<NotesMd, ImagePng>>), ReadmeMD >>
TreeB == << ReadmeMD, PlainMd, DirOf("docs", "docs", <<NotesMd>>) >>

\* The snapshots a tree fetch can return.
Trees == { <<>>, TreeA, TreeB }

\* The JSON bodies of a successful tree fetch: { tree: FileNode[] }, or a body
\* with no tree field.
TreeBodies == { [tree |-> <<t>>] : t \in Trees } \cup { [tree |-> <<>>] }

\* The bodies' content field of a successful file fetch.
Contents == { "v1", "v2" }

ErrLoadingWorkspace == "Error loading workspace"

-----------------------------------------------------------------------------
(* Requests in flight.  Every request is a record of the same shape:       *)
(*   kind, path, name  what was asked, as the handler's closure keeps it;  *)
(*   selected          the selectedFile of the render whose handler issued *)
(*                     the request (the closure of handleDeleteConfirm);   *)
(*   after             the handler that awaits a tree fetch, "" for none;  *)
(*   joined            an upload whose Promise.all is still pending.       *)
(* The other fields are bookkeeping of the model; the program keeps none.  *)
(* live is FALSE once the instance that issued the request was unmounted:  *)
(* React drops state updates of an unmounted component.  stale: a request  *)
(* issued later, of the same kind, has already resolved successfully.      *)
(* treeAtIssue: fileTree when a tree fetch was issued, recorded when trees  *)
(* are in history.  atIssue: the state when the request was issued,        *)
(* recorded for the kinds in history while no request in flight has one.   *)

Request(kind, path, name) ==
    [kind |-> kind, path |-> path, name |-> name, selected |-> <<>>, after |-> "",
     joined |-> FALSE, live |-> TRUE, stale |-> FALSE, treeAtIssue |-> <<>>,
     atIssue |-> <<>>]

\* The state a request was issued in; one request at a time is followed.
Snapshot(kind) ==
    IF kind \in history /\ \A j \in DOMAIN net : net[j].atIssue = <<>>
    THEN << [fileTree |-> fileTree, selectedFile |-> selectedFile,
             expandedFolders |-> expandedFolders] >>
    ELSE <<>>

\* A tree fetch.
TreeReq ==
    [Request("tree", "", "") EXCEPT
        !.treeAtIssue = IF "tree" \in history THEN fileTree ELSE <<>>]

\* A file-content fetch of handleFileClick: the closure keeps file.path and file.name.
PreviewReq(file) ==
    [Request("preview", file.path, file.name) EXCEPT !.atIssue = Snapshot("preview")]

Remove(s, i) == [j \in 1..(Len(s) - 1) |-> IF j < i THEN s[j] ELSE s[j + 1]]

\* net after request i settled; with supersede, the requests of its kind issued
\* before it are marked stale.
Settled(i, supersede) ==
    Remove([j \in DOMAIN net |->
               IF supersede /\ j < i /\ net[j].kind = net[i].kind
               THEN [net[j] EXCEPT !.stale = TRUE] ELSE net[j]], i)

-----------------------------------------------------------------------------
(* The view: renderFileTree.                                               *)

RECURSIVE renderFileTreeExpanded(_, _)
\* A rendering that shows the children of every folder, open or not.
renderFileTreeExpanded(nodes, level) ==
    IF nodes = <<>> THEN <<>>
    ELSE LET node == Head(nodes)
             row  == [node |-> node, level |-> level]
             sub  == IF node.type = "directory" /\ node.children # <<>>
                     THEN renderFileTreeExpanded(node.children, level + 1) ELSE <<>>
         IN <<row>> \o sub \o renderFileTreeExpanded(Tail(nodes), level)

RECURSIVE renderFileTree(_, _)
\* The rows shown for nodes at the given level, top to bottom.
renderFileTree(nodes, level) ==
    IF nodes = <<>> THEN <<>>
    ELSE LET node == Head(nodes)
             row  == [node |-> node, level |-> level]
             sub  == IF node.type = "directory" /\ node.path \in expandedFolders
                        /\ node.children # <<>>
                     THEN renderFileTree(node.children, level + 1) ELSE <<>>
         IN <<row>> \o sub \o renderFileTree(Tail(nodes), level)

\* The tree rows on screen: the panel shows them when there is no error.
VisibleRows ==
    IF mounted /\ isOpen /\ error = <<>> THEN renderFileTree(fileTree, 0) ELSE <<>>

VisibleNodes == { VisibleRows[i].node : i \in DOMAIN VisibleRows }

\* The content of the panel: error ? error view : fileTree.length === 0 ?
\* empty-workspace view : the tree.
panelContent ==
    IF error # <<>> THEN "workspace-error"
    ELSE IF fileTree = <<>> THEN "workspace-empty"
    ELSE "file-tree"

-----------------------------------------------------------------------------
\* The state before the App renders the panel.
Unrendered ==
    /\ mounted = FALSE
    /\ isOpen = TRUE
    /\ fileTree = <<>>
    /\ expandedFolders = {}
    /\ selectedFile = <<>>
    /\ loading = FALSE
    /\ error = <<>>
    /\ deleteConfirmation = <<>>
    /\ isDragOver = FALSE
    /\ intervals = <<>>
    /\ net = <<>>
    /\ notice = <<>>
    /\ gate = [now |-> 0, lastSent |-> <<>>, waiting |-> <<>>, sent |-> <<>>]
    /\ objectUrls = [created |-> 0, revoked |-> 0]
    /\ dragEvent = <<>>
    /\ hasError = FALSE
    /\ urlMode = ""
    /\ reloads = 0
    /\ SidebarIdle

Init == Unrendered /\ history = {"tree"}

\* A load that leaves the error as it is until the response arrives.
loadWorkspaceTreeIssueKeepsError ==
    /\ Len(net) < MaxInFlight
    /\ UNCHANGED error
    /\ net' = Append(net, TreeReq)

\* loadWorkspaceTree up to its await: clear the error, issue the tree fetch.
loadWorkspaceTreeIssue ==
    /\ Len(net) < MaxInFlight
    /\ error' = <<>>
    /\ net' = Append(net, TreeReq)

\* setInterval(loadWorkspaceTree, 15000)
PollingIntervalMs == 15000

\* A cleanup that leaves the timer running.
effectCleanupLeak == UNCHANGED intervals

\* The polling effect's cleanup, clearInterval(interval): the timer the effect
\* created, which is the one created last, is gone.
effectCleanup == intervals' = SubSeq(intervals, 1, Len(intervals) - 1)

\* An effect that sets the timer up and loads nothing.
effectOpenTimerOnly ==
    /\ intervals' = Append(intervals, PollingIntervalMs)
    /\ UNCHANGED <<error, net>>

\* The polling effect's body when isOpen: load now, then on every firing of
\* a new interval timer.
effectOpen ==
    /\ loadWorkspaceTreeIssue
    /\ intervals' = Append(intervals, PollingIntervalMs)

\* An App whose effect leaves the URL alone.
MountKeepsUrl ==
    /\ UNCHANGED <<gate, objectUrls, history, dragEvent, hasError, reloads, urlMode,
                   sidebarVars>>
    /\ ~mounted /\ ~hasError
    /\ mounted' = TRUE
    /\ IF isOpen THEN effectOpen ELSE UNCHANGED <<error, net, intervals>>
    /\ UNCHANGED <<isOpen, fileTree, expandedFolders, selectedFile, loading,
                   deleteConfirmation, isDragOver>>
    /\ notice' = <<>>

\* App renders the panel (hasStartedChat): initial state, then the effect
\* runs; App's own effect puts mode=advanced in the URL.
Mount ==
    /\ UNCHANGED <<gate, objectUrls, history, dragEvent, hasError, reloads, sidebarVars>>
    /\ ~mounted /\ ~hasError
    /\ urlMode' = "advanced"
    /\ mounted' = TRUE
    /\ IF isOpen THEN effectOpen ELSE UNCHANGED <<error, net, intervals>>
    /\ UNCHANGED <<isOpen, fileTree, expandedFolders, selectedFile, loading,
                   deleteConfirmation, isDragOver>>
    /\ notice' = <<>>

\* The panel is torn down: the effect's cleanup runs, the state is gone, and
\* the requests still in flight belong to no component.
Unmount ==
    /\ UNCHANGED <<gate, objectUrls, history, appVars>>
    /\ mounted
    /\ mounted' = FALSE
    /\ IF isOpen THEN effectCleanup ELSE UNCHANGED intervals
    /\ fileTree' = <<>>
    /\ expandedFolders' = {}
    /\ selectedFile' = <<>>
    /\ loading' = FALSE
    /\ error' = <<>>
    /\ deleteConfirmation' = <<>>
    /\ isDragOver' = FALSE
    /\ net' = [j \in DOMAIN net |-> [net[j] EXCEPT !.live = FALSE]]
    /\ UNCHANGED <<isOpen>>
    /\ notice' = <<>>

\* Most page reloads in one run.
MaxReloads == 2

\* A component under the ErrorBoundary throws while the panel is rendered:
\* getDerivedStateFromError sets hasError, the boundary renders its fallback
\* in place of its children, and the panel is torn down as in Unmount.
RenderFault ==
    /\ UNCHANGED <<gate, objectUrls, history, dragEvent, urlMode, reloads, sidebarVars>>
    /\ mounted /\ ~hasError
    /\ hasError' = TRUE
    /\ mounted' = FALSE
    /\ IF isOpen THEN effectCleanup ELSE UNCHANGED intervals
    /\ fileTree' = <<>>
    /\ expandedFolders' = {}
    /\ selectedFile' = <<>>
    /\ loading' = FALSE
    /\ error' = <<>>
    /\ deleteConfirmation' = <<>>
    /\ isDragOver' = FALSE
    /\ net' = [j \in DOMAIN net |-> [net[j] EXCEPT !.live = FALSE]]
    /\ UNCHANGED <<isOpen>>
    /\ notice' = <<>>

\* The fallback's Reload Page button: setState({ hasError: false }) and
\* window.location.reload().  The page starts again: the requests of the old
\* page are gone, every useState has its initial value, and hasStartedChat
\* is read from the URL, so with mode=advanced the App renders the panel at
\* once, open, and its effect loads the tree and starts the timer.
ReloadClick ==
    /\ UNCHANGED <<history, urlMode, sidebarVars>>
    /\ hasError /\ reloads < MaxReloads
    /\ reloads' = reloads + 1
    /\ hasError' = FALSE
    /\ isOpen' = TRUE
    /\ fileTree' = <<>>
    /\ expandedFolders' = {}
    /\ selectedFile' = <<>>
    /\ loading' = FALSE
    /\ error' = <<>>
    /\ deleteConfirmation' = <<>>
    /\ isDragOver' = FALSE
    /\ notice' = <<>>
    /\ gate' = [now |-> 0, lastSent |-> <<>>, waiting |-> <<>>, sent |-> <<>>]
    /\ objectUrls' = [created |-> 0, revoked |-> 0]
    /\ dragEvent' = <<>>
    /\ mounted' = (urlMode = "advanced")
    /\ IF urlMode = "advanced"
       THEN net' = <<TreeReq>> /\ intervals' = <<PollingIntervalMs>>
       ELSE net' = <<>> /\ intervals' = <<>>

\* onToggle while closed: isOpen becomes true and the effect runs.
OpenPanel ==
    /\ UNCHANGED <<gate, objectUrls, history, appVars>>
    /\ ~isOpen /\ ~hasError
    /\ isOpen' = TRUE
    /\ IF mounted THEN effectOpen ELSE UNCHANGED <<error, net, intervals>>
    /\ UNCHANGED <<mounted, fileTree, expandedFolders, selectedFile, loading,
                   deleteConfirmation, isDragOver>>
    /\ notice' = <<>>

\* A close after which the effect's cleanup does not run.
ClosePanelKeepsTimer ==
    /\ UNCHANGED <<gate, objectUrls, history, appVars>>
    /\ isOpen /\ ~hasError
    /\ isOpen' = FALSE
    /\ UNCHANGED <<mounted, fileTree, expandedFolders, selectedFile, loading,
                   error, deleteConfirmation, isDragOver, net, intervals>>
    /\ notice' = <<>>

\* onToggle while open: isOpen becomes false and the effect's cleanup runs.
ClosePanel ==
    /\ UNCHANGED <<gate, objectUrls, history, appVars>>
    /\ isOpen /\ ~hasError
    /\ isOpen' = FALSE
    /\ IF mounted THEN effectCleanup ELSE UNCHANGED intervals
    /\ UNCHANGED <<mounted, fileTree, expandedFolders, selectedFile, loading,
                   error, deleteConfirmation, isDragOver, net>>
    /\ notice' = <<>>

\* One firing of a live interval: setInterval(loadWorkspaceTree, 15000).
TimerTick ==
    /\ UNCHANGED <<gate, objectUrls, history, appVars>>
    /\ intervals # <<>>
    /\ loadWorkspaceTreeIssue
    /\ UNCHANGED <<mounted, isOpen, fileTree, expandedFolders, selectedFile,
                   loading, deleteConfirmation, isDragOver, intervals>>
    /\ notice' = <<>>

\* The Refresh button of the panel header.
RefreshClick ==
    /\ UNCHANGED <<gate, objectUrls, history, appVars>>
    /\ mounted /\ isOpen
    /\ loadWorkspaceTreeIssue
    /\ UNCHANGED <<mounted, isOpen, fileTree, expandedFolders, selectedFile,
                   loading, deleteConfirmation, isDragOver, intervals>>
    /\ notice' = <<>>

\* The Retry button of the error view.
RetryClick ==
    /\ UNCHANGED <<gate, objectUrls, history, appVars>>
    /\ mounted /\ isOpen /\ error # <<>>
    /\ loadWorkspaceTreeIssue
    /\ UNCHANGED <<mounted, isOpen, fileTree, expandedFolders, selectedFile,
                   loading, deleteConfirmation, isDragOver, intervals>>
    /\ notice' = <<>>

\* handleDeleteConfirm after await loadWorkspaceTree(): selectedFile is the
\* one of the render whose handler ran, file the one that was staged; then
\* the finally block.
deleteContinuation(req) ==
    /\ selectedFile' = IF req.selected # <<>> /\ req.selected[1].path = req.path
                       THEN <<>> ELSE selectedFile
    /\ loading' = FALSE
    /\ deleteConfirmation' = <<>>

\* handleFileUpload after await loadWorkspaceTree(): the finally block.
uploadContinuation ==
    /\ loading' = FALSE
    /\ UNCHANGED <<selectedFile, deleteConfirmation>>

\* The handler that awaited this tree fetch resumes when it settles:
\* loadWorkspaceTree catches its own failure, so it resumes either way.
afterLoadWorkspaceTree(req) ==
    IF req.live /\ req.after = "delete" THEN deleteContinuation(req)
    ELSE IF req.live /\ req.after = "upload" THEN uploadContinuation
    ELSE UNCHANGED <<selectedFile, loading, deleteConfirmation>>

\* data.tree || []
treeOrEmpty(data) == IF data.tree = <<>> THEN <<>> ELSE data.tree[1]

\* A success that keeps a tree already loaded.
TreeResolveKeepsFirst(i, data) ==
    /\ UNCHANGED <<gate, objectUrls, history, appVars>>
    /\ i \in DOMAIN net /\ net[i].kind = "tree"
    /\ net' = Settled(i, net[i].live)
    /\ IF net[i].live /\ fileTree = <<>>
       THEN fileTree' = treeOrEmpty(data)
       ELSE UNCHANGED fileTree
    /\ afterLoadWorkspaceTree(net[i])
    /\ UNCHANGED <<mounted, isOpen, expandedFolders, error, isDragOver, intervals>>
    /\ notice' = <<>>

\* A success that drops the expanded paths.
TreeResolveResetsExpansion(i, data) ==
    /\ UNCHANGED <<gate, objectUrls, history, appVars>>
    /\ i \in DOMAIN net /\ net[i].kind = "tree"
    /\ net' = Settled(i, net[i].live)
    /\ IF net[i].live
       THEN fileTree' = treeOrEmpty(data) /\ expandedFolders' = {}
       ELSE UNCHANGED <<fileTree, expandedFolders>>
    /\ afterLoadWorkspaceTree(net[i])
    /\ UNCHANGED <<mounted, isOpen, error, isDragOver, intervals>>
    /\ notice' = <<>>

\* loadWorkspaceTree after its await, the fetch resolved with body data.
TreeResolve(i, data) ==
    /\ UNCHANGED <<gate, objectUrls, history, appVars>>
    /\ i \in DOMAIN net /\ net[i].kind = "tree"
    /\ net' = Settled(i, net[i].live)
    /\ IF net[i].live
       THEN fileTree' = treeOrEmpty(data)
       ELSE UNCHANGED fileTree
    /\ afterLoadWorkspaceTree(net[i])
    /\ UNCHANGED <<mounted, isOpen, expandedFolders, error, isDragOver, intervals>>
    /\ notice' = <<>>

\* A catch that also empties the tree.
TreeRejectClearsTree(i) ==
    /\ UNCHANGED <<gate, objectUrls, history, appVars>>
    /\ i \in DOMAIN net /\ net[i].kind = "tree"
    /\ net' = Settled(i, FALSE)
    /\ IF net[i].live
       THEN error' = <<ErrLoadingWorkspace>> /\ fileTree' = <<>>
       ELSE UNCHANGED <<error, fileTree>>
    /\ afterLoadWorkspaceTree(net[i])
    /\ UNCHANGED <<mounted, isOpen, expandedFolders, isDragOver, intervals>>
    /\ notice' = <<>>

\* loadWorkspaceTree's catch: the import or the fetch threw.
TreeReject(i) ==
    /\ UNCHANGED <<gate, objectUrls, history, appVars>>
    /\ i \in DOMAIN net /\ net[i].kind = "tree"
    /\ net' = Settled(i, FALSE)
    /\ IF net[i].live
       THEN error' = <<ErrLoadingWorkspace>>
       ELSE UNCHANGED error
    /\ afterLoadWorkspaceTree(net[i])
    /\ UNCHANGED <<mounted, isOpen, fileTree, expandedFolders, isDragOver, intervals>>
    /\ notice' = <<>>

\* A toggle that only ever adds.
newExpandedAddOnly(expanded, path) == expanded \cup {path}

\* const newExpanded = new Set(expandedFolders); has ? delete : add
newExpanded(expanded, path) ==
    IF path \in expanded THEN expanded \ {path} ELSE expanded \cup {path}

\* toggleFolder: setExpandedFolders(newExpanded)
toggleFolder(path) == expandedFolders' = newExpanded(expandedFolders, path)

NoticeNotPreviewable == "Only text and markdown files can be previewed"
NoticeLoadFailed == "Failed to load file"
NoticeLoadError == "Error loading file"

\* A click that is refused while the loading flag is set.
handleFileClickUnlessLoading(file) ==
    /\ UNCHANGED <<mounted, isOpen, fileTree, selectedFile, error,
                   deleteConfirmation, isDragOver, intervals, gate, objectUrls,
                   history, appVars>>
    /\ file \in VisibleNodes
    /\ ~loading
    /\ IF file.type = "directory"
       THEN /\ toggleFolder(file.path)
            /\ UNCHANGED <<loading, net>>
            /\ notice' = <<>>
       ELSE IF ~isTextFile(file.name)
       THEN /\ notice' = <<NoticeNotPreviewable>>
            /\ UNCHANGED <<expandedFolders, loading, net>>
       ELSE /\ Len(net) < MaxInFlight
            /\ loading' = TRUE
            /\ net' = Append(net, PreviewReq(file))
            /\ UNCHANGED expandedFolders
            /\ notice' = <<>>

\* handleFileClick up to its await, on a row of the tree.
handleFileClick(file) ==
    /\ UNCHANGED <<mounted, isOpen, fileTree, selectedFile, error,
                   deleteConfirmation, isDragOver, intervals, gate, objectUrls,
                   history, appVars>>
    /\ file \in VisibleNodes
    /\ IF file.type = "directory"
       THEN /\ toggleFolder(file.path)
            /\ UNCHANGED <<loading, net>>
            /\ notice' = <<>>
       ELSE IF ~isTextFile(file.name)
       THEN /\ notice' = <<NoticeNotPreviewable>>
            /\ UNCHANGED <<expandedFolders, loading, net>>
       ELSE /\ Len(net) < MaxInFlight
            /\ loading' = TRUE
            /\ net' = Append(net, PreviewReq(file))
            /\ UNCHANGED expandedFolders
            /\ notice' = <<>>

\* A preview that commits the path of the file previewed before it.
selectionOfKeepingPath(req, content) ==
    << [path |-> IF selectedFile = <<>> THEN "" ELSE selectedFile[1].path,
        content |-> content, name |-> req.name] >>

\* setSelectedFile({ path: file.path, content: data.content, name: file.name })
selectionOf(req, content) ==
    << [path |-> req.path, content |-> content, name |-> req.name] >>

\* The outcomes of a file fetch: a 2xx response with a JSON body, a response
\* that is not ok, a rejected fetch, a 2xx response whose body does not parse.
PreviewFailures == { "notOk", "rejected", "badJson" }

\* handleFileClick after its awaits, response.ok and the body parsed.
PreviewResolve(i, content) ==
    /\ UNCHANGED <<gate, objectUrls, history, appVars>>
    /\ i \in DOMAIN net /\ net[i].kind = "preview"
    /\ net' = Settled(i, net[i].live)
    /\ IF net[i].live
       THEN /\ selectedFile' = selectionOf(net[i], content)
            /\ loading' = FALSE
       ELSE UNCHANGED <<selectedFile, loading>>
    /\ UNCHANGED <<mounted, isOpen, fileTree, expandedFolders, error,
                   deleteConfirmation, isDragOver, intervals>>
    /\ notice' = <<>>

\* A failure path without the finally block.
PreviewFailKeepsLoading(i, how) ==
    /\ UNCHANGED <<gate, objectUrls, history, appVars>>
    /\ i \in DOMAIN net /\ net[i].kind = "preview"
    /\ net' = Settled(i, FALSE)
    /\ notice' = IF how = "notOk" THEN <<NoticeLoadFailed>> ELSE <<NoticeLoadError>>
    /\ UNCHANGED <<mounted, isOpen, fileTree, expandedFolders, selectedFile, error,
                   deleteConfirmation, isDragOver, intervals, loading>>

\* A failure path that also closes the viewer.
PreviewFailClosesViewer(i, how) ==
    /\ UNCHANGED <<gate, objectUrls, history, appVars>>
    /\ i \in DOMAIN net /\ net[i].kind = "preview"
    /\ net' = Settled(i, FALSE)
    /\ notice' = IF how = "notOk" THEN <<NoticeLoadFailed>> ELSE <<NoticeLoadError>>
    /\ IF net[i].live
       THEN loading' = FALSE /\ selectedFile' = <<>>
       ELSE UNCHANGED <<loading, selectedFile>>
    /\ UNCHANGED <<mounted, isOpen, fileTree, expandedFolders, error,
                   deleteConfirmation, isDragOver, intervals>>

\* handleFileClick after its awaits, the else branch and the catch.
PreviewFail(i, how) ==
    /\ UNCHANGED <<gate, objectUrls, history, appVars>>
    /\ i \in DOMAIN net /\ net[i].kind = "preview"
    /\ net' = Settled(i, FALSE)
    /\ notice' = IF how = "notOk" THEN <<NoticeLoadFailed>> ELSE <<NoticeLoadError>>
    /\ IF net[i].live THEN loading' = FALSE ELSE UNCHANGED loading
    /\ UNCHANGED <<mounted, isOpen, fileTree, expandedFolders, selectedFile, error,
                   deleteConfirmation, isDragOver, intervals>>

\* The file viewer's close button and its backdrop: setSelectedFile(null).
CloseViewer ==
    /\ UNCHANGED <<gate, objectUrls, history, appVars>>
    /\ mounted /\ selectedFile # <<>>
    /\ selectedFile' = <<>>
    /\ UNCHANGED <<mounted, isOpen, fileTree, expandedFolders, loading, error,
                   deleteConfirmation, isDragOver, intervals, net>>
    /\ notice' = <<>>

-----------------------------------------------------------------------------
(* Delete: the confirmation is staged, then confirmed or cancelled.  The   *)
(* shipped view renders neither the delete button nor the confirmation     *)
(* dialog, and handleDeleteClick has its one statement commented out; the  *)
(* handlers below are the state machine the component still defines.       *)

\* handleDeleteClick's statement: setDeleteConfirmation({ file, isOpen: true }),
\* from the delete button of a file row.
stageDeleteConfirmation(file) ==
    /\ UNCHANGED <<mounted, isOpen, fileTree, expandedFolders, selectedFile, loading,
                   error, isDragOver, intervals, net, gate, objectUrls, history, appVars>>
    /\ file \in VisibleNodes /\ file.type = "file"
    /\ deleteConfirmation' = << [file |-> file, isOpen |-> TRUE] >>
    /\ notice' = <<>>

\* A delete click with its statement in place.
handleDeleteClickStages(file) == stageDeleteConfirmation(file)

\* handleDeleteClick as shipped: its body is a comment.
handleDeleteClick(file) ==
    /\ UNCHANGED <<mounted, isOpen, fileTree, expandedFolders, selectedFile, loading,
                   error, deleteConfirmation, isDragOver, intervals, net, gate,
                   objectUrls, history, appVars>>
    /\ file \in VisibleNodes /\ file.type = "file"
    /\ notice' = <<>>

\* The DELETE of handleDeleteConfirm: the closure keeps file and the
\* selectedFile of its render.
DeleteReq(file) ==
    [Request("delete", file.path, file.name) EXCEPT !.selected = selectedFile,
                                                    !.atIssue = Snapshot("delete")]

\* A confirm that, with nothing staged, deletes the file in the viewer.
handleDeleteConfirmUnstaged ==
    /\ UNCHANGED <<mounted, isOpen, fileTree, expandedFolders, selectedFile, error,
                   deleteConfirmation, isDragOver, intervals, gate, objectUrls,
                   history, appVars>>
    /\ mounted
    /\ notice' = <<>>
    /\ IF deleteConfirmation = <<>> /\ selectedFile = <<>>
       THEN UNCHANGED <<loading, net>>
       ELSE /\ Len(net) < MaxInFlight
            /\ loading' = TRUE
            /\ net' = Append(net, DeleteReq(IF deleteConfirmation = <<>>
                                            THEN selectedFile[1]
                                            ELSE deleteConfirmation[1].file))

\* handleDeleteConfirm up to its await.
handleDeleteConfirm ==
    /\ UNCHANGED <<mounted, isOpen, fileTree, expandedFolders, selectedFile, error,
                   deleteConfirmation, isDragOver, intervals, gate, objectUrls,
                   history, appVars>>
    /\ mounted
    /\ notice' = <<>>
    /\ IF deleteConfirmation = <<>>
       THEN UNCHANGED <<loading, net>>
       ELSE /\ Len(net) < MaxInFlight
            /\ loading' = TRUE
            /\ net' = Append(net, DeleteReq(deleteConfirmation[1].file))

\* handleDeleteCancel: setDeleteConfirmation(null).
handleDeleteCancel ==
    /\ UNCHANGED <<mounted, isOpen, fileTree, expandedFolders, selectedFile, loading,
                   error, isDragOver, intervals, net, gate, objectUrls, history, appVars>>
    /\ mounted
    /\ deleteConfirmation' = <<>>
    /\ notice' = <<>>

\* The tree fetch a handler awaits after request i resolved: loadWorkspaceTree
\* up to its await, called from the handler's continuation.
loadWorkspaceTreeAfter(i, handler) ==
    /\ net' = Append(Settled(i, FALSE),
                     [TreeReq EXCEPT !.after = handler, !.path = net[i].path,
                                     !.selected = net[i].selected,
                                     !.live = net[i].live])
    /\ IF net[i].live THEN error' = <<>> ELSE UNCHANGED error

NoticeDeleteFailed == "Failed to delete file"
NoticeDeleteError == "Error deleting file"

\* The outcomes of the DELETE that are failures: a response that is not ok,
\* a rejected fetch.
DeleteFailures == { "notOk", "rejected" }

\* A success that dismisses the confirmation and clears loading before the
\* tree fetch it issues has settled.
DeleteResolveDismissesFirst(i) ==
    /\ UNCHANGED <<mounted, isOpen, fileTree, expandedFolders, selectedFile,
                   isDragOver, intervals, gate, objectUrls, history, appVars>>
    /\ i \in DOMAIN net /\ net[i].kind = "delete"
    /\ loadWorkspaceTreeAfter(i, "delete")
    /\ IF net[i].live
       THEN loading' = FALSE /\ deleteConfirmation' = <<>>
       ELSE UNCHANGED <<loading, deleteConfirmation>>
    /\ notice' = <<>>

\* A success that also takes the deleted row out of the tree it holds.
DeleteResolveWritesTree(i) ==
    /\ UNCHANGED <<mounted, isOpen, expandedFolders, selectedFile, loading,
                   deleteConfirmation, isDragOver, intervals, gate, objectUrls,
                   history, appVars>>
    /\ i \in DOMAIN net /\ net[i].kind = "delete"
    /\ fileTree' = SelectSeq(fileTree, LAMBDA n : n.path # net[i].path)
    /\ loadWorkspaceTreeAfter(i, "delete")
    /\ notice' = <<>>

\* handleDeleteConfirm after its first await, response.ok: await loadWorkspaceTree().
DeleteResolve(i) ==
    /\ UNCHANGED <<mounted, isOpen, fileTree, expandedFolders, selectedFile, loading,
                   deleteConfirmation, isDragOver, intervals, gate, objectUrls,
                   history, appVars>>
    /\ i \in DOMAIN net /\ net[i].kind = "delete"
    /\ loadWorkspaceTreeAfter(i, "delete")
    /\ notice' = <<>>

\* A failure path with no catch: the handler ends in its finally block and
\* shows nothing.
DeleteFailUncaught(i, how) ==
    /\ UNCHANGED <<mounted, isOpen, fileTree, expandedFolders, selectedFile, error,
                   isDragOver, intervals, gate, objectUrls, history, appVars>>
    /\ i \in DOMAIN net /\ net[i].kind = "delete"
    /\ net' = Settled(i, FALSE)
    /\ notice' = <<>>
    /\ IF net[i].live
       THEN loading' = FALSE /\ deleteConfirmation' = <<>>
       ELSE UNCHANGED <<loading, deleteConfirmation>>

\* A failure path that refreshes the tree as the success path does.
DeleteFailRefreshes(i, how) ==
    /\ UNCHANGED <<mounted, isOpen, fileTree, expandedFolders, selectedFile,
                   isDragOver, intervals, gate, objectUrls, history, appVars>>
    /\ i \in DOMAIN net /\ net[i].kind = "delete"
    /\ loadWorkspaceTreeAfter(i, "")
    /\ notice' = IF how = "notOk" THEN <<NoticeDeleteFailed>> ELSE <<NoticeDeleteError>>
    /\ IF net[i].live
       THEN loading' = FALSE /\ deleteConfirmation' = <<>>
       ELSE UNCHANGED <<loading, deleteConfirmation>>

\* handleDeleteConfirm after its first await, the else branch and the catch,
\* then the finally block.
DeleteFail(i, how) ==
    /\ UNCHANGED <<mounted, isOpen, fileTree, expandedFolders, selectedFile, error,
                   isDragOver, intervals, gate, objectUrls, history, appVars>>
    /\ i \in DOMAIN net /\ net[i].kind = "delete"
    /\ net' = Settled(i, FALSE)
    /\ notice' = IF how = "notOk" THEN <<NoticeDeleteFailed>> ELSE <<NoticeDeleteError>>
    /\ IF net[i].live
       THEN loading' = FALSE /\ deleteConfirmation' = <<>>
       ELSE UNCHANGED <<loading, deleteConfirmation>>

-----------------------------------------------------------------------------
(* Download.  The handler awaits twice: the fetch, then the body read as a *)
(* blob; a request of kind "download" becomes one of kind "blob" between.  *)

\* Most object URLs created in one run.
MaxObjectUrls == 2

\* handleDownload up to its first await.
handleDownload(filePath, fileName) ==
    /\ UNCHANGED <<mounted, isOpen, fileTree, expandedFolders, selectedFile, loading,
                   error, deleteConfirmation, isDragOver, intervals, gate, objectUrls,
                   history, appVars>>
    /\ Len(net) < MaxInFlight
    /\ net' = Append(net, Request("download", filePath, fileName))
    /\ notice' = <<>>

\* The download button of a file row.
DownloadFromRow(node) ==
    /\ node \in VisibleNodes /\ node.type = "file"
    /\ handleDownload(node.path, node.name)

\* The Download button of the file viewer.
DownloadFromViewer ==
    /\ mounted /\ selectedFile # <<>>
    /\ handleDownload(selectedFile[1].path, selectedFile[1].name)

NoticeDownloadFailed == "Failed to download file"
NoticeDownloadError == "Error downloading file"

\* The outcomes of the download fetch: a 2xx response, a response that is
\* not ok, a rejected fetch.
DownloadResponses == { "ok", "notOk", "rejected" }

\* A failure path that reports through the error flag.
DownloadRespondSetsError(i, how) ==
    /\ UNCHANGED <<mounted, isOpen, fileTree, expandedFolders, selectedFile, loading,
                   deleteConfirmation, isDragOver, intervals, gate, objectUrls,
                   history, appVars>>
    /\ i \in DOMAIN net /\ net[i].kind = "download"
    /\ IF how = "ok"
       THEN /\ net' = [net EXCEPT ![i].kind = "blob"]
            /\ notice' = <<>>
            /\ UNCHANGED error
       ELSE /\ net' = Settled(i, FALSE)
            /\ notice' = <<>>
            /\ error' = IF how = "notOk" THEN <<NoticeDownloadFailed>>
                                        ELSE <<NoticeDownloadError>>

\* handleDownload after its first await: response.ok awaits response.blob(),
\* the else branch and the catch alert.
DownloadRespond(i, how) ==
    /\ UNCHANGED <<mounted, isOpen, fileTree, expandedFolders, selectedFile, loading,
                   error, deleteConfirmation, isDragOver, intervals, gate, objectUrls,
                   history, appVars>>
    /\ i \in DOMAIN net /\ net[i].kind = "download"
    /\ IF how = "ok"
       THEN /\ net' = [net EXCEPT ![i].kind = "blob"]
            /\ notice' = <<>>
       ELSE /\ net' = Settled(i, FALSE)
            /\ notice' = IF how = "notOk" THEN <<NoticeDownloadFailed>>
                                         ELSE <<NoticeDownloadError>>

\* window.URL.createObjectURL(blob), window.URL.revokeObjectURL(url)
createObjectURL(urls) == [urls EXCEPT !.created = urls.created + 1]
revokeObjectURL(urls) == [urls EXCEPT !.revoked = urls.revoked + 1]

\* The outcomes of the body read and of what follows it: the blob was read
\* and the anchor clicked, the read rejected, the blob was read and the click
\* (or the append before it) threw.
BlobOutcomes == { "clicked", "blobFails", "clickThrows" }

\* handleDownload after its second await: lines 99-106, and the catch.
DownloadBlob(i, how) ==
    /\ UNCHANGED <<mounted, isOpen, fileTree, expandedFolders, selectedFile, loading,
                   error, deleteConfirmation, isDragOver, intervals, gate, history, appVars>>
    /\ i \in DOMAIN net /\ net[i].kind = "blob"
    /\ net' = Settled(i, FALSE)
    /\ CASE how = "clicked" ->
              /\ objectUrls.created < MaxObjectUrls
              /\ objectUrls' = revokeObjectURL(createObjectURL(objectUrls))
              /\ notice' = <<>>
         [] how = "blobFails" ->
              /\ UNCHANGED objectUrls
              /\ notice' = <<NoticeDownloadError>>
         [] how = "clickThrows" ->
              /\ objectUrls.created < MaxObjectUrls
              /\ objectUrls' = createObjectURL(objectUrls)
              /\ notice' = <<NoticeDownloadError>>

-----------------------------------------------------------------------------
(* Upload.  The shipped drop handler never calls handleFileUpload (its     *)
(* body is commented out); the handler is the one the component defines.   *)

\* Most files in one upload.
MaxUploadFiles == 2

\* file.name of the k-th file of an upload.
UploadName(k) == "upload-" \o ToString(k)

\* The POST of one file: Promise.all waits on it.
UploadReq(k) == [Request("upload", "", UploadName(k)) EXCEPT !.joined = TRUE]

\* An upload is under way: a POST of it is in flight, or the tree fetch it
\* awaits is.
Uploading ==
    \E j \in DOMAIN net : net[j].kind = "upload" \/ net[j].after = "upload"

\* An upload that posts its first file only.
handleFileUploadFirstOnly(n) ==
    /\ UNCHANGED <<mounted, isOpen, fileTree, expandedFolders, selectedFile,
                   deleteConfirmation, isDragOver, intervals, gate, objectUrls,
                   history, appVars>>
    /\ mounted /\ ~Uploading
    /\ n \in 0..MaxUploadFiles
    /\ Len(net) + (IF n = 0 THEN 1 ELSE n) <= MaxInFlight
    /\ loading' = TRUE
    /\ error' = <<>>
    /\ net' = IF n = 0
              THEN Append(net, [TreeReq EXCEPT !.after = "upload"])
              ELSE Append(net, UploadReq(1))
    /\ notice' = <<>>

\* handleFileUpload up to its first await, for n files: files.map starts
\* every POST before Promise.all is awaited; with no file, Promise.all
\* resolves at once and the tree fetch is issued.
handleFileUpload(n) ==
    /\ UNCHANGED <<mounted, isOpen, fileTree, expandedFolders, selectedFile,
                   deleteConfirmation, isDragOver, intervals, gate, objectUrls,
                   history, appVars>>
    /\ mounted /\ ~Uploading
    /\ n \in 0..MaxUploadFiles
    /\ Len(net) + (IF n = 0 THEN 1 ELSE n) <= MaxInFlight
    /\ loading' = TRUE
    /\ error' = <<>>
    /\ net' = IF n = 0
              THEN Append(net, [TreeReq EXCEPT !.after = "upload"])
              ELSE net \o [k \in 1..n |-> UploadReq(k)]
    /\ notice' = <<>>

\* The outcomes of one POST: a 2xx response with a JSON body, a response
\* that is not ok, a rejected fetch, a 2xx response whose body does not parse.
UploadOutcomes == { "ok", "notOk", "rejected", "badJson" }

\* `Upload failed: ${err.message}`, err being what the POST threw.
UploadError(name, how) ==
    "Upload failed: " \o
        (CASE how = "notOk"    -> "Failed to upload " \o name \o ": Internal Server Error"
           [] how = "rejected" -> "Failed to fetch"
           [] how = "badJson"  -> "Unexpected end of JSON input")

\* The other POSTs that Promise.all still waits on.
OtherJoined(i) ==
    { j \in DOMAIN net : j # i /\ net[j].kind = "upload" /\ net[j].joined }

\* net after POST i made Promise.all reject: the other POSTs go on, and
\* nothing waits on them.
Abandoned(i) ==
    Remove([j \in DOMAIN net |->
               IF net[j].kind = "upload" THEN [net[j] EXCEPT !.joined = FALSE]
               ELSE net[j]], i)

\* A failure that leaves Promise.all waiting on the other POSTs.
UploadSettleEachFailure(i, how) ==
    /\ UNCHANGED <<mounted, isOpen, fileTree, expandedFolders, selectedFile,
                   deleteConfirmation, isDragOver, intervals, gate, objectUrls,
                   history, appVars>>
    /\ i \in DOMAIN net /\ net[i].kind = "upload"
    /\ notice' = <<>>
    /\ IF ~net[i].joined
       THEN net' = Settled(i, FALSE) /\ UNCHANGED <<error, loading>>
       ELSE IF how = "ok"
       THEN IF OtherJoined(i) # {}
            THEN net' = Settled(i, FALSE) /\ UNCHANGED <<error, loading>>
            ELSE loadWorkspaceTreeAfter(i, "upload") /\ UNCHANGED loading
       ELSE /\ net' = Settled(i, FALSE)
            /\ IF net[i].live
               THEN /\ error' = << UploadError(net[i].name, how) >>
                    /\ loading' = FALSE
               ELSE UNCHANGED <<error, loading>>

\* One POST of handleFileUpload settles.  Promise.all resolves when the last
\* POST it waits on succeeds: the handler then awaits loadWorkspaceTree().
\* It rejects with the first failure: the catch sets the error, the finally
\* clears loading, and the POSTs still in flight are waited on by nothing.
UploadSettle(i, how) ==
    /\ UNCHANGED <<mounted, isOpen, fileTree, expandedFolders, selectedFile,
                   deleteConfirmation, isDragOver, intervals, gate, objectUrls,
                   history, appVars>>
    /\ i \in DOMAIN net /\ net[i].kind = "upload"
    /\ notice' = <<>>
    /\ IF ~net[i].joined
       THEN net' = Settled(i, FALSE) /\ UNCHANGED <<error, loading>>
       ELSE IF how = "ok"
       THEN IF OtherJoined(i) # {}
            THEN net' = Settled(i, FALSE) /\ UNCHANGED <<error, loading>>
            ELSE loadWorkspaceTreeAfter(i, "upload") /\ UNCHANGED loading
       ELSE /\ net' = Abandoned(i)
            /\ IF net[i].live
               THEN /\ error' = << UploadError(net[i].name, how) >>
                    /\ loading' = FALSE
               ELSE UNCHANGED <<error, loading>>

-----------------------------------------------------------------------------
(* Drag and drop.  The four handlers of the panel's root element call       *)
(* e.preventDefault() and e.stopPropagation() and nothing else: the rest of *)
(* their bodies is commented out.  dragEvent is the event as the handler    *)
(* left it, files the number of files dragged.                               *)

DragEvent(type, files) ==
    << [type |-> type, files |-> files,
        defaultPrevented |-> TRUE, propagationStopped |-> TRUE] >>

\* The handler's effect on the panel: none.
dragHandled ==
    /\ UNCHANGED <<mounted, isOpen, fileTree, expandedFolders, selectedFile, loading,
                   error, deleteConfirmation, isDragOver, intervals, net, gate,
                   objectUrls, history, hasError, urlMode, reloads, sidebarVars>>
    /\ notice' = <<>>

\* The handler as it is commented out: if (types.includes('Files')) setIsDragOver(true)
handleDragEnterSetsDragOver(files) ==
    /\ mounted
    /\ dragEvent' = DragEvent("dragenter", files)
    /\ isDragOver' = (isDragOver \/ files > 0)
    /\ UNCHANGED <<mounted, isOpen, fileTree, expandedFolders, selectedFile, loading,
                   error, deleteConfirmation, intervals, net, gate,
                   objectUrls, history, hasError, urlMode, reloads, sidebarVars>>
    /\ notice' = <<>>

handleDragEnter(files) ==
    /\ mounted
    /\ dragEvent' = DragEvent("dragenter", files)
    /\ dragHandled

handleDragLeave(files) ==
    /\ mounted
    /\ dragEvent' = DragEvent("dragleave", files)
    /\ dragHandled

handleDragOver(files) ==
    /\ mounted
    /\ dragEvent' = DragEvent("dragover", files)
    /\ dragHandled

handleDrop(files) ==
    /\ mounted
    /\ dragEvent' = DragEvent("drop", files)
    /\ dragHandled

\* Every FileNode of the snapshots, at any depth.
RECURSIVE NodesOf(_)
NodesOf(nodes) ==
    IF nodes = <<>> THEN {}
    ELSE {Head(nodes)} \cup NodesOf(Head(nodes).children) \cup NodesOf(Tail(nodes))

AllNodes == UNION { NodesOf(t) : t \in Trees }

Next ==
    \/ Mount
    \/ Unmount
    \/ OpenPanel
    \/ ClosePanel
    \/ TimerTick
    \/ RefreshClick
    \/ RetryClick
    \/ \E i \in DOMAIN net, data \in TreeBodies : TreeResolve(i, data)
    \/ \E i \in DOMAIN net : TreeReject(i)
    \/ \E file \in AllNodes : handleFileClick(file)
    \/ \E i \in DOMAIN net, content \in Contents : PreviewResolve(i, content)
    \/ \E i \in DOMAIN net, how \in PreviewFailures : PreviewFail(i, how)
    \/ CloseViewer

Spec == Init /\ [][Next]_vars

\* The same program, with the previews recording the state they were issued in.
InitPreview == Unrendered /\ history = {"preview"}

\* One instance of the panel, open: the tree, the previews and the viewer.
NextPreview ==
    \/ Mount
    \/ RefreshClick
    \/ \E i \in DOMAIN net, data \in TreeBodies : TreeResolve(i, data)
    \/ \E i \in DOMAIN net : TreeReject(i)
    \/ \E file \in AllNodes : handleFileClick(file)
    \/ \E i \in DOMAIN net, content \in Contents : PreviewResolve(i, content)
    \/ \E i \in DOMAIN net, how \in PreviewFailures : PreviewFail(i, how)
    \/ CloseViewer

SpecPreview == InitPreview /\ [][NextPreview]_vars

\* The panel after it was rendered open and its first tree fetch resolved
\* with TreeA.
PanelLoaded ==
    /\ mounted = TRUE
    /\ isOpen = TRUE
    /\ fileTree = TreeA
    /\ expandedFolders = {}
    /\ selectedFile = <<>>
    /\ loading = FALSE
    /\ error = <<>>
    /\ deleteConfirmation = <<>>
    /\ isDragOver = FALSE
    /\ intervals = <<PollingIntervalMs>>
    /\ net = <<>>
    /\ notice = <<>>
    /\ gate = [now |-> 0, lastSent |-> <<>>, waiting |-> <<>>, sent |-> <<>>]
    /\ objectUrls = [created |-> 0, revoked |-> 0]
    /\ dragEvent = <<>>
    /\ hasError = FALSE
    /\ urlMode = "advanced"
    /\ reloads = 0

Loaded == PanelLoaded /\ SidebarIdle

InitDelete == Loaded /\ history = {"delete"}

\* The inputs of the delete scenarios: the previewable files are clicked, one
\* is staged, a file fetch returns one content, a tree fetch one of two trees.
DeleteFiles == { ReadmeMD }
DeleteClicks == { NotesMd, ReadmeMD } \cup { n \in AllNodes : n.type = "directory" }
DeleteContents == { "v1" }
DeleteTreeBodies == { [tree |-> <<TreeA>>], [tree |-> <<TreeB>>] }

\* One instance of the panel, open: the tree, the previews, the viewer and
\* the delete state machine.
NextDelete ==
    \/ \E i \in DOMAIN net, data \in DeleteTreeBodies : TreeResolve(i, data)
    \/ \E i \in DOMAIN net : TreeReject(i)
    \/ \E file \in DeleteClicks : handleFileClick(file)
    \/ \E i \in DOMAIN net, content \in DeleteContents : PreviewResolve(i, content)
    \/ CloseViewer
    \/ \E file \in DeleteFiles : stageDeleteConfirmation(file)
    \/ handleDeleteConfirm
    \/ handleDeleteCancel
    \/ \E i \in DOMAIN net : DeleteResolve(i)
    \/ \E i \in DOMAIN net, how \in DeleteFailures : DeleteFail(i, how)

SpecDelete == InitDelete /\ [][NextDelete]_vars

\* The panel after the first load and one delete click on README.MD: the
\* confirmation is staged, nothing is in flight.
Staged ==
    /\ mounted = TRUE
    /\ isOpen = TRUE
    /\ fileTree = TreeA
    /\ expandedFolders = {}
    /\ selectedFile = <<>>
    /\ loading = FALSE
    /\ error = <<>>
    /\ deleteConfirmation = << [file |-> ReadmeMD, isOpen |-> TRUE] >>
    /\ isDragOver = FALSE
    /\ intervals = <<PollingIntervalMs>>
    /\ net = <<>>
    /\ notice = <<>>
    /\ gate = [now |-> 0, lastSent |-> <<>>, waiting |-> <<>>, sent |-> <<>>]
    /\ objectUrls = [created |-> 0, revoked |-> 0]
    /\ dragEvent = <<>>
    /\ hasError = FALSE
    /\ urlMode = "advanced"
    /\ reloads = 0
    /\ SidebarIdle

InitConfirm == Staged /\ history = {}

\* One staged confirmation and what can happen to it: confirm, cancel, the
\* outcomes of the DELETE and of the tree fetch, with previews going on.
NextConfirm ==
    \/ handleDeleteConfirm
    \/ handleDeleteCancel
    \/ \E i \in DOMAIN net : DeleteResolve(i)
    \/ \E i \in DOMAIN net, how \in DeleteFailures : DeleteFail(i, how)
    \/ \E i \in DOMAIN net, data \in DeleteTreeBodies : TreeResolve(i, data)
    \/ \E i \in DOMAIN net : TreeReject(i)
    \/ \E file \in DeleteClicks : handleFileClick(file)
    \/ \E i \in DOMAIN net, content \in DeleteContents : PreviewResolve(i, content)
    \/ CloseViewer

SpecConfirm == InitConfirm /\ [][NextConfirm]_vars

\* The inputs of the scenarios about the loading flag: one file is
\* previewed, a file fetch returns one content, a tree fetch the other tree,
\* an upload sends at most one file, and a request fails in one way.
LoadingFiles == { ReadmeMD }
LoadingContents == { "v1" }
LoadingTreeBodies == { [tree |-> <<TreeB>>] }
LoadingUploads == 0..1
LoadingFailures == { "rejected" }
LoadingOutcomes == { "ok", "rejected" }

\* The request issued first settles, in any of the ways it can.
SettleOldest ==
    /\ net # <<>>
    /\ \/ \E data \in LoadingTreeBodies : TreeResolve(1, data)
       \/ TreeReject(1)
       \/ \E content \in LoadingContents : PreviewResolve(1, content)
       \/ \E how \in LoadingFailures : PreviewFail(1, how)
       \/ DeleteResolve(1)
       \/ \E how \in LoadingFailures : DeleteFail(1, how)
       \/ \E how \in LoadingOutcomes : UploadSettle(1, how)

\* The operations that set the loading flag, from the staged confirmation:
\* previews, the confirmed delete, uploads, and their requests settling in
\* any order.
NextLoading ==
    \/ \E file \in LoadingFiles : handleFileClick(file)
    \/ \E i \in DOMAIN net, content \in LoadingContents : PreviewResolve(i, content)
    \/ \E i \in DOMAIN net, how \in LoadingFailures : PreviewFail(i, how)
    \/ handleDeleteConfirm
    \/ \E i \in DOMAIN net : DeleteResolve(i)
    \/ \E i \in DOMAIN net, how \in LoadingFailures : DeleteFail(i, how)
    \/ \E n \in LoadingUploads : handleFileUpload(n)
    \/ \E i \in DOMAIN net, how \in LoadingOutcomes : UploadSettle(i, how)
    \/ \E i \in DOMAIN net, data \in LoadingTreeBodies : TreeResolve(i, data)
    \/ \E i \in DOMAIN net : TreeReject(i)

\* Every request that was issued completes: the oldest one in flight is
\* never left waiting for ever.
SpecLoading == InitConfirm /\ [][NextLoading]_vars /\ WF_vars(SettleOldest)

InitDownload == Loaded /\ history = {}

\* The inputs of the download scenarios: the folder and one file are clicked,
\* a file fetch returns one content, two rows have their download button used.
DownloadClicks == { n \in AllNodes : n.type = "directory" } \cup { ReadmeMD }
DownloadContents == { "v1" }
DownloadRows == { ImagePng, ReadmeMD }

\* One instance of the panel, open: the rows, the previews, the viewer and
\* the downloads.
NextDownload ==
    \/ \E file \in DownloadClicks : handleFileClick(file)
    \/ \E i \in DOMAIN net, content \in DownloadContents : PreviewResolve(i, content)
    \/ CloseViewer
    \/ \E node \in DownloadRows : DownloadFromRow(node)
    \/ DownloadFromViewer
    \/ \E i \in DOMAIN net, how \in DownloadResponses : DownloadRespond(i, how)
    \/ \E i \in DOMAIN net, how \in BlobOutcomes : DownloadBlob(i, how)

SpecDownload == InitDownload /\ [][NextDownload]_vars

\* A tree with a folder inside a folder.
DeepNotesMd == FileOf("notes.md", "docs/docs/notes.md")
TreeNested ==
    << DirOf("docs", "docs", << DirOf("docs", "docs/docs", <<DeepNotesMd>>), ImagePng >>),
       ReadmeMD >>

\* The inputs of the rendering scenarios: a tree fetch returns TreeA, the
\* nested tree or no tree; every row shown is clicked.
RenderTreeBodies == { [tree |-> <<TreeA>>], [tree |-> <<TreeNested>>], [tree |-> <<>>] }
RenderClicks == NodesOf(TreeA) \cup NodesOf(TreeNested)
RenderContents == { "v1" }

InitRender == Loaded /\ history = {}

\* One instance of the panel: the tree fetches, the clicks on the rows and
\* the previews they start.
NextRender ==
    \/ OpenPanel
    \/ ClosePanel
    \/ RefreshClick
    \/ \E i \in DOMAIN net, data \in RenderTreeBodies : TreeResolve(i, data)
    \/ \E i \in DOMAIN net : TreeReject(i)
    \/ RetryClick
    \/ \E file \in RenderClicks : handleFileClick(file)
    \/ \E i \in DOMAIN net, content \in RenderContents : PreviewResolve(i, content)

SpecRender == InitRender /\ [][NextRender]_vars

\* The inputs of the fault scenarios: the folder and one file are clicked, a
\* file fetch returns one content, a tree fetch one tree.
BoundaryClicks == { ReadmeMD } \cup { n \in NodesOf(TreeA) : n.type = "directory" }
BoundaryContents == { "v1" }
BoundaryTreeBodies == { [tree |-> <<TreeA>>] }

InitBoundary == Unrendered /\ history = {}

\* The App under its ErrorBoundary: the panel is rendered and used, a
\* rendering fault brings the fallback, the fallback's button reloads.
NextBoundary ==
    \/ Mount
    \/ OpenPanel
    \/ ClosePanel
    \/ \E i \in DOMAIN net, data \in BoundaryTreeBodies : TreeResolve(i, data)
    \/ \E i \in DOMAIN net : TreeReject(i)
    \/ \E file \in BoundaryClicks : handleFileClick(file)
    \/ \E i \in DOMAIN net, content \in BoundaryContents : PreviewResolve(i, content)
    \/ RenderFault
    \/ ReloadClick

SpecBoundary == InitBoundary /\ [][NextBoundary]_vars

\* The inputs of the drag scenarios: nothing or files are dragged, one file
\* is clicked, a file fetch returns one content, a tree fetch the other tree.
DraggedFiles == 0..MaxUploadFiles
DragClicks == { ReadmeMD }
DragContents == { "v1" }
DragTreeBodies == { [tree |-> <<TreeB>>] }

InitDrag == Loaded /\ history = {}

\* One instance of the panel: the drag events over it, and the tree, the
\* previews and the viewer.
NextDrag ==
    \/ \E files \in DraggedFiles : handleDragEnter(files)
    \/ \E files \in DraggedFiles : handleDragOver(files)
    \/ \E files \in DraggedFiles : handleDragLeave(files)
    \/ \E files \in DraggedFiles : handleDrop(files)
    \/ RefreshClick
    \/ \E i \in DOMAIN net, data \in DragTreeBodies : TreeResolve(i, data)
    \/ \E file \in DragClicks : handleFileClick(file)
    \/ \E i \in DOMAIN net, content \in DragContents : PreviewResolve(i, content)
    \/ CloseViewer

SpecDrag == InitDrag /\ [][NextDrag]_vars

\* The inputs of the scenarios of the panel as shipped: one file is clicked,
\* downloaded and delete-clicked, files are dropped, a file fetch returns one
\* content, a tree fetch the other tree.
ShippedFiles == { ReadmeMD }
ShippedContents == { "v1" }
ShippedTreeBodies == { [tree |-> <<TreeB>>] }
ShippedFailures == { "rejected" }
ShippedResponses == { "ok", "notOk" }
ShippedBlobs == { "clicked" }

InitShipped == Loaded /\ history = {}

\* One instance of the panel with the handlers as the shipped code has
\* them: the refresh, the previews and the viewer, the downloads, the delete
\* click, confirm and cancel, and the drop.
NextShipped ==
    \/ RefreshClick
    \/ \E i \in DOMAIN net, data \in ShippedTreeBodies : TreeResolve(i, data)
    \/ \E i \in DOMAIN net : TreeReject(i)
    \/ \E file \in ShippedFiles : handleFileClick(file)
    \/ \E i \in DOMAIN net, content \in ShippedContents : PreviewResolve(i, content)
    \/ \E i \in DOMAIN net, how \in ShippedFailures : PreviewFail(i, how)
    \/ CloseViewer
    \/ \E node \in ShippedFiles : DownloadFromRow(node)
    \/ \E i \in DOMAIN net, how \in ShippedResponses : DownloadRespond(i, how)
    \/ \E i \in DOMAIN net, how \in ShippedBlobs : DownloadBlob(i, how)
    \/ \E file \in ShippedFiles : handleDeleteClick(file)
    \/ handleDeleteConfirm
    \/ handleDeleteCancel
    \/ \E files \in DraggedFiles : handleDrop(files)

SpecShipped == InitShipped /\ [][NextShipped]_vars

InitUpload == Loaded /\ history = {}

\* One instance of the panel, open: the uploads, and the tree fetches of the
\* Refresh button and of the uploads.
NextUpload ==
    \/ Mount
    \/ Unmount
    \/ RefreshClick
    \/ \E i \in DOMAIN net, data \in TreeBodies : TreeResolve(i, data)
    \/ \E i \in DOMAIN net : TreeReject(i)
    \/ \E n \in 0..MaxUploadFiles : handleFileUpload(n)
    \/ \E i \in DOMAIN net, how \in UploadOutcomes : UploadSettle(i, how)

SpecUpload == InitUpload /\ [][NextUpload]_vars

\* A tree in which the docs folder is gone and another folder has appeared.
TreeC == << ReadmeMD, DirOf("src", "src", <<PlainMd>>) >>

\* The inputs of the expansion scenarios: a tree fetch returns any of the
\* bodies, TreeC among them; the folders of all the trees are clicked.
ExpansionTreeBodies == TreeBodies \cup { [tree |-> <<TreeC>>] }
ExpansionClicks == { n \in AllNodes \cup NodesOf(TreeC) : n.type = "directory" }

InitExpansion == Loaded /\ history = {}

\* One instance of the panel, open: the tree fetches and the folders.
NextExpansion ==
    \/ OpenPanel
    \/ ClosePanel
    \/ TimerTick
    \/ RefreshClick
    \/ RetryClick
    \/ \E i \in DOMAIN net, data \in ExpansionTreeBodies : TreeResolve(i, data)
    \/ \E i \in DOMAIN net : TreeReject(i)
    \/ \E file \in ExpansionClicks : handleFileClick(file)

SpecExpansion == InitExpansion /\ [][NextExpansion]_vars

\* The inputs of the scenarios that mix the kinds of operation: one file is
\* previewed, downloaded and deleted, a file fetch returns one content, a
\* tree fetch the other tree, and an upload sends at most one file.
OperationsFiles == { ReadmeMD }
OperationsContents == { "v1" }
OperationsUploads == 0..1
OperationsTreeBodies == { [tree |-> <<TreeB>>] }

\* In the first scenario a request that fails is a fetch that rejects, and
\* a download that got its response reads the body and clicks.
OperationsFailures == { "rejected" }
OperationsResponses == { "ok", "rejected" }
OperationsBlobs == { "clicked" }

InitOperations == Loaded /\ history = {}

\* One instance of the panel, open: preview, download, delete and upload
\* together, and the tree fetches that delete and upload await.
NextOperations ==
    \/ \E i \in DOMAIN net, data \in OperationsTreeBodies : TreeResolve(i, data)
    \/ \E i \in DOMAIN net : TreeReject(i)
    \/ \E file \in OperationsFiles : handleFileClick(file)
    \/ \E i \in DOMAIN net, content \in OperationsContents : PreviewResolve(i, content)
    \/ \E i \in DOMAIN net, how \in OperationsFailures : PreviewFail(i, how)
    \/ \E node \in OperationsFiles : DownloadFromRow(node)
    \/ \E i \in DOMAIN net, how \in OperationsResponses : DownloadRespond(i, how)
    \/ \E i \in DOMAIN net, how \in OperationsBlobs : DownloadBlob(i, how)
    \/ \E file \in OperationsFiles : stageDeleteConfirmation(file)
    \/ handleDeleteConfirm
    \/ \E i \in DOMAIN net : DeleteResolve(i)
    \/ \E i \in DOMAIN net, how \in OperationsFailures : DeleteFail(i, how)
    \/ \E n \in OperationsUploads : handleFileUpload(n)
    \/ \E i \in DOMAIN net, how \in OperationsResponses : UploadSettle(i, how)

SpecOperations == InitOperations /\ [][NextOperations]_vars

\* The same panel when the backend fails in every way it can: the previews
\* and the tree fetches all fail, the other requests succeed or fail.
NextFailures ==
    \/ \E i \in DOMAIN net : TreeReject(i)
    \/ \E file \in OperationsFiles : handleFileClick(file)
    \/ \E i \in DOMAIN net, how \in PreviewFailures : PreviewFail(i, how)
    \/ \E node \in OperationsFiles : DownloadFromRow(node)
    \/ \E i \in DOMAIN net, how \in DownloadResponses : DownloadRespond(i, how)
    \/ \E i \in DOMAIN net, how \in BlobOutcomes : DownloadBlob(i, how)
    \/ \E file \in OperationsFiles : stageDeleteConfirmation(file)
    \/ handleDeleteConfirm
    \/ \E i \in DOMAIN net : DeleteResolve(i)
    \/ \E i \in DOMAIN net, how \in DeleteFailures : DeleteFail(i, how)
    \/ \E n \in 0..MaxUploadFiles : handleFileUpload(n)
    \/ \E i \in DOMAIN net, how \in UploadOutcomes : UploadSettle(i, how)

SpecFailures == InitOperations /\ [][NextFailures]_vars

-----------------------------------------------------------------------------
(* The polling lifecycle alone, with the scheduling the runtime gives it:  *)
(* a live interval timer keeps firing, and every tree fetch settles.        *)

TreeSettle ==
    \E i \in DOMAIN net :
        \/ TreeReject(i)
        \/ \E data \in TreeBodies : TreeResolve(i, data)

NextPolling ==
    \/ Mount
    \/ Unmount
    \/ OpenPanel
    \/ ClosePanel
    \/ TimerTick
    \/ RefreshClick
    \/ RetryClick
    \/ TreeSettle

SpecPolling ==
    Init /\ [][NextPolling]_vars /\ SF_vars(TimerTick) /\ WF_vars(TreeSettle)

-----------------------------------------------------------------------------
(* The workspace call throttle (workspaceThrottle, imported by the App for *)
(* its effect): every call to a workspace endpoint, from whatever call     *)
(* site, passes a single gate that lets one call through per minimum       *)
(* interval and holds the others back, in order.                           *)

\* "Enforce 3-second minimum interval between workspace API calls"
MinIntervalMs == 3000

\* The clock's grain and horizon, and the most calls one run makes.
ClockStepMs == 1000
MaxClockSteps == 7
MaxCalls == 3

Endpoints == { "tree", "file", "download" }

\* A gate that never holds a call back.
gateAlwaysOpen == TRUE

\* The gate lets a call through when none went out within the minimum interval.
gateOpen ==
    \/ gate.lastSent = <<>>
    \/ gate.now - gate.lastSent[1] >= MinIntervalMs

\* The gate with the call to endpoint sent out now.
sendNow(g, endpoint) ==
    [g EXCEPT !.lastSent = <<g.now>>,
              !.sent = Append(g.sent, [endpoint |-> endpoint, at |-> g.now])]

\* A call site calls a workspace endpoint: the call goes out at once when the
\* gate is open and nothing waits before it, and waits its turn otherwise.
ThrottledCall(endpoint) ==
    /\ Len(gate.waiting) + Len(gate.sent) < MaxCalls
    /\ gate' = IF gateOpen /\ gate.waiting = <<>>
               THEN sendNow(gate, endpoint)
               ELSE [gate EXCEPT !.waiting = Append(gate.waiting, endpoint)]
    /\ UNCHANGED <<mounted, isOpen, fileTree, expandedFolders, selectedFile, loading,
                   error, deleteConfirmation, isDragOver, intervals, net, notice,
                   objectUrls, history, appVars>>

\* The gate opens for the call that waited longest.
GateRelease ==
    /\ gate.waiting # <<>>
    /\ gateOpen
    /\ gate' = sendNow([gate EXCEPT !.waiting = Tail(gate.waiting)], Head(gate.waiting))
    /\ UNCHANGED <<mounted, isOpen, fileTree, expandedFolders, selectedFile, loading,
                   error, deleteConfirmation, isDragOver, intervals, net, notice,
                   objectUrls, history, appVars>>

\* Time passes.
ClockAdvance ==
    /\ gate.now < MaxClockSteps * ClockStepMs
    /\ gate' = [gate EXCEPT !.now = gate.now + ClockStepMs]
    /\ UNCHANGED <<mounted, isOpen, fileTree, expandedFolders, selectedFile, loading,
                   error, deleteConfirmation, isDragOver, intervals, net, notice,
                   objectUrls, history, appVars>>

NextThrottle ==
    \/ \E endpoint \in Endpoints : ThrottledCall(endpoint)
    \/ GateRelease
    \/ ClockAdvance

SpecThrottle == Init /\ [][NextThrottle]_vars

-----------------------------------------------------------------------------
(* The LeftSidebar's conversations (same source file as the panel).  The   *)
(* sidebar is followed from its mount: its own unmount and the saved flows *)
(* are not part of the model.                                              *)

MaxNow == 2
MaxSidebarRequests == 3

\* `conv-${Date.now()}`
LocalId(ms) == <<"conv", ms>>
NoId == <<"", 0>>

panelVars == <<mounted, isOpen, fileTree, expandedFolders, selectedFile, loading, error,
               deleteConfirmation, isDragOver, intervals, net, notice, gate,
               objectUrls, history, dragEvent, hasError, urlMode, reloads>>

SidebarRequest(kind, id) ==
    [kind |-> kind, id |-> id, conversations |-> <<>>, selectedConversation |-> <<>>]

\* c => c.id !== id
WithoutId(list, id) ==
    LET Keep(c) == c.id # id IN SelectSeq(list, Keep)

RemoveRequest(i) == [k \in 1..(Len(sidebarNet) - 1) |->
                        IF k < i THEN sidebarNet[k] ELSE sidebarNet[k + 1]]

\* The sidebar as its mount effect leaves it: no conversation, none
\* selected, the GET of the conversations in flight.
SidebarMounted ==
    /\ PanelLoaded
    /\ history = {}
    /\ conversations = <<>>
    /\ selectedConversation = <<>>
    /\ sidebarNet = << SidebarRequest("load", NoId) >>
    /\ issued = 1
    /\ now = 1

\* loadConversations, the response is ok and its body parsed.
LoadConversationsResolve(i, data) ==
    /\ UNCHANGED <<panelVars, issued, selectedConversation, now>>
    /\ sidebarNet[i].kind = "load"
    /\ conversations' = data
    /\ sidebarNet' = RemoveRequest(i)

\* loadConversations, the response is not ok or the fetch rejects.
LoadConversationsFail(i) ==
    /\ UNCHANGED <<panelVars, issued, conversations, selectedConversation, now>>
    /\ sidebarNet[i].kind = "load"
    /\ sidebarNet' = RemoveRequest(i)

\* createNewConversation up to its await: the entry goes to the front of the
\* list, is selected, and the POST is issued.  addConversation, the
\* capability exposed through the ref, is this call with a title.
createNewConversation(customTitle) ==
    LET newConv == [id |-> LocalId(now),
                    title |-> IF customTitle = "" THEN "New Conversation" ELSE customTitle,
                    timestamp |-> now]
    IN  /\ UNCHANGED <<panelVars, now>>
        /\ issued < MaxSidebarRequests
        /\ issued' = issued + 1
        /\ conversations' = <<newConv>> \o conversations
        /\ selectedConversation' = <<newConv.id>>
        /\ sidebarNet' = Append(sidebarNet, SidebarRequest("create", newConv.id))

\* A variant of CreateResolve that takes the server's record as it is.
CreateResolveTakesServerId(i, apiConv) ==
    /\ UNCHANGED <<panelVars, issued, selectedConversation, now>>
    /\ sidebarNet[i].kind = "create"
    /\ conversations' = [k \in DOMAIN conversations |->
                            IF conversations[k].id = sidebarNet[i].id
                            THEN apiConv
                            ELSE conversations[k]]
    /\ sidebarNet' = RemoveRequest(i)

\* createNewConversation, the POST answers ok: { ...apiConv, id: newConv.id }
\* takes the place of the entries that carry the local id.
CreateResolve(i, apiConv) ==
    /\ UNCHANGED <<panelVars, issued, selectedConversation, now>>
    /\ sidebarNet[i].kind = "create"
    /\ conversations' = [k \in DOMAIN conversations |->
                            IF conversations[k].id = sidebarNet[i].id
                            THEN [apiConv EXCEPT !.id = sidebarNet[i].id]
                            ELSE conversations[k]]
    /\ sidebarNet' = RemoveRequest(i)

\* createNewConversation, the POST answers not ok or rejects: a warning.
CreateFail(i) ==
    /\ UNCHANGED <<panelVars, issued, conversations, selectedConversation, now>>
    /\ sidebarNet[i].kind = "create"
    /\ sidebarNet' = RemoveRequest(i)

\* A click on a row of the conversation list.
SelectConversation(id) ==
    /\ UNCHANGED <<panelVars, issued, conversations, sidebarNet, now>>
    /\ \E k \in DOMAIN conversations : conversations[k].id = id
    /\ selectedConversation' = <<id>>

\* deleteConversation up to its await: the DELETE is issued; the handler
\* keeps the list and the selection of the render it was made in.
deleteConversation(id) ==
    /\ UNCHANGED <<panelVars, conversations, selectedConversation, now>>
    /\ \E k \in DOMAIN conversations : conversations[k].id = id
    /\ issued < MaxSidebarRequests
    /\ issued' = issued + 1
    /\ sidebarNet' = Append(sidebarNet,
                            [kind |-> "delete", id |-> id,
                             conversations |-> conversations,
                             selectedConversation |-> selectedConversation])

\* deleteConversation, the DELETE answers ok: the list the handler kept,
\* without the id, is written; the selection is cleared if the selection
\* the handler kept is the id.
DeleteConversationResolve(i) ==
    /\ UNCHANGED <<panelVars, issued, now>>
    /\ sidebarNet[i].kind = "delete"
    /\ conversations' = WithoutId(sidebarNet[i].conversations, sidebarNet[i].id)
    /\ selectedConversation' = IF sidebarNet[i].selectedConversation = <<sidebarNet[i].id>>
                               THEN <<>>
                               ELSE selectedConversation
    /\ sidebarNet' = RemoveRequest(i)

\* deleteConversation, the DELETE answers not ok or rejects.
DeleteConversationFail(i) ==
    /\ UNCHANGED <<panelVars, issued, conversations, selectedConversation, now>>
    /\ sidebarNet[i].kind = "delete"
    /\ sidebarNet' = RemoveRequest(i)

\* Date.now() moves on.
SidebarClock ==
    /\ UNCHANGED <<panelVars, issued, conversations, selectedConversation, sidebarNet>>
    /\ now < MaxNow
    /\ now' = now + 1

\* The inputs of the sidebar scenarios: the titles given to a new
\* conversation (none, or one), the record the server answers a POST with,
\* the list the server answers the GET with.
SidebarTitles == { "", "Plan a trip" }
ServerRecords == { [id |-> <<"srv", 7>>, title |-> "Plan a trip (saved)", timestamp |-> 0] }
ServerLists == { << [id |-> <<"srv", 1>>, title |-> "Earlier chat", timestamp |-> 0] >> }
SidebarIds == { LocalId(ms) : ms \in 1..MaxNow } \cup { <<"srv", 1>> }

InitSidebar == SidebarMounted

NextSidebar ==
    \/ \E i \in DOMAIN sidebarNet, data \in ServerLists : LoadConversationsResolve(i, data)
    \/ \E i \in DOMAIN sidebarNet : LoadConversationsFail(i)
    \/ \E customTitle \in SidebarTitles : createNewConversation(customTitle)
    \/ \E i \in DOMAIN sidebarNet, apiConv \in ServerRecords : CreateResolve(i, apiConv)
    \/ \E i \in DOMAIN sidebarNet : CreateFail(i)
    \/ \E id \in SidebarIds : SelectConversation(id)
    \/ \E id \in SidebarIds : deleteConversation(id)
    \/ \E i \in DOMAIN sidebarNet : DeleteConversationResolve(i)
    \/ \E i \in DOMAIN sidebarNet : DeleteConversationFail(i)
    \/ SidebarClock

SpecSidebar == InitSidebar /\ [][NextSidebar]_vars

-----------------------------------------------------------------------------
(* Properties.                                                             *)

PanelOpen == mounted /\ isOpen

\* C1 (as claimed): a tree fetch that resolves after a fetch issued later has
\* already resolved does not overwrite the Tree Model.
C1_StaleTreeDiscarded ==
    [][\A i \in DOMAIN net, data \in TreeBodies :
          (TreeResolve(i, data) /\ net[i].live /\ net[i].stale)
              => fileTree' = fileTree]_vars

\* C2 (as claimed): a preview that resolves after a preview requested later,
\* for another file, has already resolved is not committed to Selected File.
C2_StalePreviewDiscarded ==
    [][\A i \in DOMAIN net, content \in Contents :
          (/\ PreviewResolve(i, content) /\ net[i].live /\ net[i].stale
           /\ selectedFile # <<>> /\ selectedFile[1].path # net[i].path)
              => selectedFile' = selectedFile]_vars

\* C3 (as claimed): after a tree fetch resolved, the Tree Model is the tree of
\* the response and the error is null.
C3_ResolveReplacesTreeAndErrorNull ==
    [][\A i \in DOMAIN net, data \in TreeBodies :
          (TreeResolve(i, data) /\ net[i].live)
              => /\ fileTree' = (IF data.tree = <<>> THEN <<>> ELSE data.tree[1])
                 /\ error' = <<>>]_vars

\* C4 (as claimed): after a tree fetch failed, the Tree Model is the one of the
\* moment the fetch was issued, and the error is set.
C4_RejectKeepsTreeOfIssue ==
    [][\A i \in DOMAIN net :
          (TreeReject(i) /\ net[i].live)
              => /\ fileTree' = net[i].treeAtIssue
                 /\ error' # <<>>]_vars

\* C4 (amended): a failing tree fetch leaves the Tree Model as it was just before
\* the failure was handled, and sets the error to the loading message.
C4_RejectLeavesTreeAndSetsError ==
    [][\A i \in DOMAIN net :
          (TreeReject(i) /\ net[i].live)
              => /\ fileTree' = fileTree
                 /\ error' = <<"Error loading workspace">>]_vars

\* A tree fetch failed after a successful one: the tree is kept, the error shown.
C4_Witness == error # <<>> /\ fileTree # <<>>

\* C5: a timer-triggered refresh is issued only while the panel is mounted and
\* open; after a close or a teardown no timer is left.
C5_NoTickWhileClosed ==
    [][(TimerTick => PanelOpen) /\ (~PanelOpen' => intervals' = <<>>)]_vars

\* The panel was closed with a fetch of its open time still in flight.
C5_Witness == mounted /\ ~isOpen /\ net # <<>> /\ intervals = <<>>

\* C6 (as claimed): a request that settles while the panel is closed, or after
\* the teardown, changes none of Tree Model, error and Selected File.
C6_ClosedPanelDiscards ==
    [][(/\ ~PanelOpen
        /\ \E i \in DOMAIN net :
              \/ TreeReject(i)
              \/ \E data \in TreeBodies : TreeResolve(i, data)
              \/ \E content \in Contents : PreviewResolve(i, content)
              \/ \E how \in PreviewFailures : PreviewFail(i, how))
          => UNCHANGED <<fileTree, error, selectedFile>>]_vars

\* C7: every transition to mounted-and-open issues exactly one tree fetch at once
\* and leaves exactly one timer, of 15000 ms; and if the panel stays open, the
\* timer triggers refreshes again and again.
C7_OpenRefreshesThenPolls ==
    /\ [][(PanelOpen' /\ ~PanelOpen)
            => /\ Len(net') = Len(net) + 1
               /\ SubSeq(net', 1, Len(net)) = net
               /\ net'[Len(net')].kind = "tree"
               /\ intervals' = <<15000>>]_vars
    /\ (<>[]PanelOpen => []<><<TimerTick>>_vars)

\* The panel was reopened: its fetch of the reopening is in flight, one timer runs.
C7_Witness ==
    /\ PanelOpen /\ Len(intervals) = 1
    /\ \E i \in DOMAIN net : net[i].kind = "tree" /\ net[i].treeAtIssue # <<>>

\* The allow-list as the interface documents it.
PreviewableSuffixes ==
    { <<".","t","x","t">>, <<".","m","d">>, <<".","j","s","o","n">>,
      <<".","y","a","m","l">>, <<".","y","m","l">>, <<".","l","o","g">>,
      <<".","c","s","v">>, <<".","h","t","m","l">>, <<".","c","s","s">>,
      <<".","j","s">>, <<".","t","s">>, <<".","p","y">> }

SameLetterIgnoringCase(a, b) ==
    \/ a = b
    \/ \E k \in 1..26 :
          {a, b} = {UpperCaseLetters[k], LowerCaseLetters[k]}

EndsWithIgnoringCase(name, suffix) ==
    /\ Len(suffix) <= Len(name)
    /\ \A k \in 1..Len(suffix) :
          SameLetterIgnoringCase(name[Len(name) - Len(suffix) + k], suffix[k])

Previewable(name) ==
    \E suffix \in PreviewableSuffixes : EndsWithIgnoringCase(CharsOf(name), suffix)

\* The file nodes of the snapshots whose name passes, and those whose name fails.
PreviewableFiles == { f \in AllNodes : f.type = "file" /\ Previewable(f.name) }
RefusedFiles == { f \in AllNodes : f.type = "file" /\ ~Previewable(f.name) }

\* C9: a click on a file whose name ends, whatever the case, with none of the
\* allowed extensions issues no request and leaves Selected File, loading and
\* error as they are; a click on a file whose name ends with one of them issues
\* exactly one file-content fetch, for that file's path.
C9_ExtensionGate ==
    [][/\ \A file \in PreviewableFiles :
            handleFileClick(file)
                => /\ Len(net') = Len(net) + 1
                   /\ SubSeq(net', 1, Len(net)) = net
                   /\ net'[Len(net')].kind = "preview"
                   /\ net'[Len(net')].path = file.path
       /\ \A file \in RefusedFiles :
            handleFileClick(file)
                => UNCHANGED <<net, selectedFile, loading, error>>]_vars

\* A file with an upper-case extension is being fetched, after a file with no
\* allowed extension was refused.
C9_Witness ==
    /\ notice = <<NoticeNotPreviewable>>
    /\ \E i \in DOMAIN net : net[i].kind = "preview" /\ net[i].path = "README.MD"

\* C10: when the file fetch of a preview resolves, Selected File becomes that
\* file's path and name with the content of the response, whatever was selected
\* before; Selected File never holds more than one file.
C10_PreviewSelects ==
    [][/\ Len(selectedFile') <= 1
       /\ \A i \in DOMAIN net :
            (net[i].kind = "preview" /\ net[i].live /\ Len(net') < Len(net))
                => \A content \in Contents :
                     PreviewResolve(i, content)
                         => selectedFile' = << [path |-> net[i].path,
                                                content |-> content,
                                                name |-> net[i].name] >>]_vars

\* A preview of README.MD replaced the file selected before it.
C10_Witness ==
    /\ selectedFile # <<>>
    /\ selectedFile[1].path = "README.MD" /\ selectedFile[1].content = "v2"
    /\ \E i \in DOMAIN net :
          net[i].kind = "preview" /\ net[i].stale /\ net[i].path = "docs/notes.md"

\* C8: any two workspace calls that went out, to the same endpoint or not, went
\* out at least the minimum interval of 3000 ms apart; so of the calls triggered
\* within one window at most one goes out in it.
C8_ThrottleSpacing ==
    \A i, j \in DOMAIN gate.sent :
        i < j => gate.sent[j].at - gate.sent[i].at >= 3000

\* Three calls to one endpoint were triggered within one window: two went out, a
\* full interval apart, and the third still waits.
C8_Witness ==
    /\ Len(gate.sent) = 2 /\ gate.waiting = <<"tree">>
    /\ gate.sent[1].endpoint = "tree" /\ gate.sent[2].endpoint = "tree"
    /\ gate.sent[2].at - gate.sent[1].at = MinIntervalMs

\* C11 (as claimed): when a preview fetch fails, a notice is shown and
\* Selected File, the Tree Model and Expansion State have the values they
\* had when the preview was requested.
C11_FailureKeepsStateOfRequest ==
    [][\A i \in DOMAIN net, how \in PreviewFailures :
          (PreviewFail(i, how) /\ net[i].live /\ net[i].atIssue # <<>>)
              => /\ notice' # <<>>
                 /\ selectedFile' = net[i].atIssue[1].selectedFile
                 /\ fileTree' = net[i].atIssue[1].fileTree
                 /\ expandedFolders' = net[i].atIssue[1].expandedFolders]_vars

\* C11 (amended): when a preview fetch fails, a notice is shown and the
\* failure changes none of Selected File, the Tree Model and Expansion State:
\* they keep the values they had when the failure arrived.
C11_FailureLeavesState ==
    [][\A i \in DOMAIN net, how \in PreviewFailures :
          PreviewFail(i, how)
              => /\ notice' \in { <<NoticeLoadFailed>>, <<NoticeLoadError>> }
                 /\ UNCHANGED <<selectedFile, fileTree, expandedFolders>>]_vars

\* A preview has just failed while a file was in the viewer, a folder was
\* expanded and the tree was loaded.
C11_Witness ==
    /\ notice \in { <<NoticeLoadFailed>>, <<NoticeLoadError>> }
    /\ selectedFile # <<>> /\ expandedFolders # {} /\ fileTree # <<>>

\* The success of a confirmed delete is processed: the tree fetch its handler
\* awaited settles and the handler resumes.
DeleteCompletes(i) ==
    /\ net[i].kind = "tree" /\ net[i].after = "delete" /\ net[i].live
    /\ \/ TreeReject(i)
       \/ \E data \in TreeBodies : TreeResolve(i, data)

\* C12 (as claimed): when the success of a confirmed delete of path P is
\* processed, Selected File is cleared if the path previewed at that time is
\* P and is left unchanged otherwise, whatever previews were requested or
\* completed and whether the viewer was closed while the delete was in flight.
C12_DeleteClearsCurrentPreview ==
    [][\A i \in DOMAIN net :
          DeleteCompletes(i)
              => selectedFile' = IF selectedFile # <<>> /\ selectedFile[1].path = net[i].path
                                 THEN <<>> ELSE selectedFile]_vars

\* How many tree fetches are in flight.
TreeFetches(requests) ==
    Cardinality({ j \in DOMAIN requests : requests[j].kind = "tree" })

\* C13 (as claimed): when a confirmed delete fails, no tree refresh is
\* triggered, a notice is shown, and the Tree Model and Selected File have the
\* values they had when the delete was confirmed.
C13_FailedDeleteKeepsStateOfConfirm ==
    [][\A i \in DOMAIN net, how \in DeleteFailures :
          (DeleteFail(i, how) /\ net[i].live /\ net[i].atIssue # <<>>)
              => /\ TreeFetches(net') = TreeFetches(net)
                 /\ notice' # <<>>
                 /\ fileTree' = net[i].atIssue[1].fileTree
                 /\ selectedFile' = net[i].atIssue[1].selectedFile]_vars

\* C13 (amended): when a confirmed delete fails, no tree refresh is
\* triggered, a notice is shown, and the failure changes neither the Tree
\* Model nor Selected File: they keep the values they had when it arrived.
C13_FailedDeleteLeavesState ==
    [][\A i \in DOMAIN net, how \in DeleteFailures :
          DeleteFail(i, how)
              => /\ TreeFetches(net') = TreeFetches(net)
                 /\ Len(net') = Len(net) - 1
                 /\ notice' \in { <<NoticeDeleteFailed>>, <<NoticeDeleteError>> }
                 /\ UNCHANGED <<fileTree, selectedFile>>]_vars

\* A delete has just failed while a file was in the viewer and the tree was
\* loaded.
C13_Witness ==
    /\ notice \in { <<NoticeDeleteFailed>>, <<NoticeDeleteError>> }
    /\ selectedFile # <<>> /\ fileTree # <<>>
    /\ deleteConfirmation = <<>> /\ ~loading

\* A step that issues a DELETE: the request is the last of net afterwards.
IssuesDelete ==
    /\ Len(net') = Len(net) + 1
    /\ net'[Len(net')].kind = "delete"

\* C14: delete is two-phase.  A DELETE for a path is issued only by
\* confirming while a confirmation holding that path is staged; confirming
\* with nothing staged issues no request; cancelling clears the staged
\* confirmation and issues no request.
C14_DeleteTwoPhase ==
    [][/\ IssuesDelete
           => /\ handleDeleteConfirm
              /\ deleteConfirmation # <<>>
              /\ net'[Len(net')].path = deleteConfirmation[1].file.path
       /\ (handleDeleteConfirm /\ deleteConfirmation = <<>>) => net' = net
       /\ handleDeleteCancel => (deleteConfirmation' = <<>> /\ net' = net)]_vars

\* The DELETE of the staged file is in flight.
C14_Witness ==
    \E i \in DOMAIN net :
        /\ net[i].kind = "delete"
        /\ deleteConfirmation # <<>>
        /\ deleteConfirmation[1].file.path = net[i].path

\* A step of a download: the handler is called, the fetch settles, or the
\* body read settles.
DownloadStep ==
    \/ DownloadFromViewer
    \/ \E node \in DownloadRows : DownloadFromRow(node)
    \/ \E i \in DOMAIN net :
          \/ \E how \in DownloadResponses : DownloadRespond(i, how)
          \/ \E how \in BlobOutcomes : DownloadBlob(i, how)

\* C15: a download, whether it succeeds or fails, leaves the Tree Model,
\* Selected File, Expansion State, the error flag and the pending delete
\* confirmation unchanged, and triggers no tree refresh.
C15_DownloadFrame ==
    [][DownloadStep
          => /\ UNCHANGED <<fileTree, selectedFile, expandedFolders, error,
                            deleteConfirmation>>
             /\ TreeFetches(net') = TreeFetches(net)]_vars

\* One download has succeeded and another has just been refused by the
\* server, with a file in the viewer and a folder expanded.
C15_Witness ==
    /\ objectUrls.revoked > 0
    /\ notice = <<NoticeDownloadFailed>>
    /\ selectedFile # <<>> /\ expandedFolders # {}

\* The object URLs created and not revoked.
UnreleasedUrls == objectUrls.created - objectUrls.revoked

\* C16 (as claimed): an object URL is created only when the response was 2xx
\* and its blob was read, every created URL is released exactly once, and
\* once a download has completed or failed no created URL is unreleased.
C16_UrlsReleased ==
    /\ [][objectUrls'.created > objectUrls.created
             => \E i \in DOMAIN net :
                   /\ net[i].kind = "blob"
                   /\ DownloadBlob(i, "clicked") \/ DownloadBlob(i, "clickThrows")]_vars
    /\ [](objectUrls.revoked <= objectUrls.created)
    /\ [](UnreleasedUrls = 0)

\* C17 (as claimed): when the programmatic click throws after the object URL
\* was created, the URL is still released and the download ends with a notice.
C17_UrlReleasedWhenClickThrows ==
    [][\A i \in DOMAIN net :
          DownloadBlob(i, "clickThrows")
              => /\ UnreleasedUrls' = UnreleasedUrls
                 /\ notice' # <<>>]_vars

\* How many POSTs of an upload are in flight.
UploadPosts(requests) ==
    Cardinality({ j \in DOMAIN requests : requests[j].kind = "upload" })

\* The tree fetches in flight that an upload awaits.
UploadRefreshes(requests) ==
    Cardinality({ j \in DOMAIN requests : requests[j].after = "upload" })

\* C18: an upload of n files issues exactly n POSTs, all of them before any
\* is awaited (in the step of the call); a tree refresh is triggered only by
\* the success of the last POST the upload waits on, when every other one has
\* succeeded, so exactly one refresh follows n successes and none precedes
\* the last completion.
C18_UploadConcurrentThenOneRefresh ==
    /\ [][\A n \in 1..MaxUploadFiles :
             handleFileUpload(n)
                 => /\ UploadPosts(net') = UploadPosts(net) + n
                    /\ \A k \in 1..n : net'[Len(net) + k].joined
                    /\ TreeFetches(net') = TreeFetches(net)]_vars
    /\ [][\A i \in DOMAIN net, how \in UploadOutcomes :
             UploadSettle(i, how)
                 => /\ UploadPosts(net') = UploadPosts(net) - 1
                    /\ IF how = "ok" /\ net[i].joined /\ OtherJoined(i) = {}
                       THEN /\ UploadRefreshes(net') = 1
                            /\ TreeFetches(net') = TreeFetches(net) + 1
                            /\ UploadPosts(net') = 0
                       ELSE TreeFetches(net') = TreeFetches(net)]_vars
    /\ [](UploadRefreshes(net) <= 1)
    /\ [](UploadRefreshes(net) = 1 => UploadPosts(net) = 0)

\* Every file of the largest upload has its POST in flight, none awaited yet.
C18_Witness ==
    /\ loading
    /\ Cardinality({ j \in DOMAIN net : net[j].kind = "upload" /\ net[j].joined })
           = MaxUploadFiles

\* C19: when a POST of an upload fails, the error flag is set to the
\* "Upload failed" message by the first failure only, the failure issues no
\* request, no refresh follows from the POSTs that are still in flight, and
\* no step of the upload changes the Tree Model.
C19_UploadFailsOnce ==
    /\ [][\A i \in DOMAIN net, how \in UploadOutcomes \ {"ok"} :
             UploadSettle(i, how)
                 => /\ Len(net') = Len(net) - 1
                    /\ TreeFetches(net') = TreeFetches(net)
                    /\ \A j \in DOMAIN net' : ~net'[j].joined
                    /\ fileTree' = fileTree
                    /\ IF net[i].joined /\ net[i].live
                       THEN /\ error' = << UploadError(net[i].name, how) >>
                            /\ ~loading'
                       ELSE UNCHANGED <<error, loading>>]_vars
    /\ [][\A i \in DOMAIN net, how \in UploadOutcomes :
             (UploadSettle(i, how) /\ ~net[i].joined)
                 => /\ net' = Settled(i, FALSE)
                    /\ UNCHANGED <<error, loading, fileTree>>]_vars
    /\ [][(\E n \in 0..MaxUploadFiles : handleFileUpload(n))
             => fileTree' = fileTree]_vars

\* An upload has failed while another of its POSTs is still in flight.
C19_Witness ==
    /\ error # <<>> /\ error[1] # ErrLoadingWorkspace
    /\ ~loading
    /\ \E j \in DOMAIN net : net[j].kind = "upload" /\ ~net[j].joined /\ net[j].live

\* The paths of the folders of a tree, at any depth.
DirPaths(tree) == { n.path : n \in { m \in NodesOf(tree) : m.type = "directory" } }

RECURSIVE ShownWith(_, _)
\* The nodes a tree shows when exactly the folders in expanded are open: the
\* top-level ones, and those of every shown folder that is open.
ShownWith(nodes, expanded) ==
    IF nodes = <<>> THEN {}
    ELSE LET node == Head(nodes)
         IN  {node}
             \cup (IF node.type = "directory" /\ node.path \in expanded
                   THEN ShownWith(node.children, expanded) ELSE {})
             \cup ShownWith(Tail(nodes), expanded)

\* C20: a tree refresh, succeeding or failing, never changes Expansion State;
\* an expanded path that the new tree does not contain raises no error, and
\* the rows are those the expanded paths present in the tree give.
C20_RefreshKeepsExpansion ==
    /\ [][\A i \in DOMAIN net :
             (TreeReject(i) \/ \E data \in ExpansionTreeBodies : TreeResolve(i, data))
                 => expandedFolders' = expandedFolders]_vars
    /\ [][\A i \in DOMAIN net, data \in ExpansionTreeBodies :
             TreeResolve(i, data) => error' = error]_vars
    /\ []((PanelOpen /\ error = <<>>)
             => VisibleNodes
                  = ShownWith(fileTree, expandedFolders \cap DirPaths(fileTree)))

\* The tree on screen has an open folder, and a path that is expanded is not
\* in it.
C20_Witness ==
    /\ PanelOpen /\ error = <<>>
    /\ expandedFolders \cap DirPaths(fileTree) # {}
    /\ expandedFolders \ DirPaths(fileTree) # {}

\* The folders of the snapshots.
Directories == { n \in AllNodes : n.type = "directory" }

C22_RefreshIdempotent ==
    [][\A i \in DOMAIN net, data \in ExpansionTreeBodies :
          (TreeResolve(i, data) /\ net[i].live /\ data.tree # <<>>)
              => /\ fileTree' = data.tree[1]
                 /\ (fileTree = data.tree[1] => fileTree' = fileTree)]_vars

\* A refresh has replaced the first tree by TreeC while an older fetch is
\* still to resolve.
C22_Witness ==
    /\ fileTree = TreeC
    /\ \E j \in DOMAIN net : net[j].kind = "tree" /\ net[j].live /\ net[j].stale

\* The kinds of request that belong to a preview, a download, an upload or a
\* delete, and the requests of those kinds in flight.
OperationKinds == { net[i].kind : i \in DOMAIN net } \ {"tree"}
HasRoom == Len(net) < MaxInFlight

\* C23: the kinds of operation do not exclude each other. Whatever else is
\* in flight and whatever the loading flag says, a click on a shown
\* previewable file is accepted and issues its file fetch, a download and a
\* confirmed delete are accepted too, and a preview that succeeds sets the
\* Selected File to the file it fetched.
C23_OperationsIndependent ==
    /\ [](\A f \in OperationsFiles :
             (f \in VisibleNodes /\ isTextFile(f.name) /\ HasRoom)
                 => /\ ENABLED handleFileClick(f)
                    /\ ENABLED DownloadFromRow(f))
    /\ []((mounted /\ deleteConfirmation # <<>> /\ HasRoom) => ENABLED handleDeleteConfirm)
    /\ [][\A f \in OperationsFiles :
             handleFileClick(f) => net' = Append(net, PreviewReq(f))]_vars
    /\ [][\A i \in DOMAIN net, content \in OperationsContents :
             (PreviewResolve(i, content) /\ net[i].live)
                 => selectedFile' = << [path |-> net[i].path, content |-> content,
                                       name |-> net[i].name] >>]_vars

\* A preview was issued after an upload that is still in flight, with the
\* loading flag set by the upload.
C23_Witness ==
    /\ loading
    /\ \E i, j \in DOMAIN net :
          /\ j < i
          /\ net[j].kind = "upload" /\ net[j].live
          /\ net[i].kind = "preview" /\ net[i].live

\* C24: the loading flag is true in every state in which a preview, a
\* download, an upload or a delete request is in flight.
C24_LoadingWhileInFlight == OperationKinds # {} => loading

\* C25: every failure of a backend call is caught by the operation that made
\* it and shown: a failed tree fetch sets the error flag, a failed preview,
\* download or delete raises its notice, the first failed POST of an upload
\* sets the error flag; the handler then runs to its end (loading cleared,
\* the pending delete confirmation dropped), also when the tree fetch that a
\* delete or an upload awaits is the call that fails.
C25_FailuresReported ==
    [][/\ \A i \in DOMAIN net :
             (TreeReject(i) /\ net[i].live)
                 => /\ error' = <<ErrLoadingWorkspace>>
                    /\ net[i].after = "delete" => ~loading' /\ deleteConfirmation' = <<>>
                    /\ net[i].after = "upload" => ~loading'
       /\ \A i \in DOMAIN net, how \in PreviewFailures :
             PreviewFail(i, how)
                 => /\ notice' \in { <<NoticeLoadFailed>>, <<NoticeLoadError>> }
                    /\ net[i].live => ~loading'
       /\ \A i \in DOMAIN net, how \in DownloadResponses \ {"ok"} :
             DownloadRespond(i, how)
                 => notice' \in { <<NoticeDownloadFailed>>, <<NoticeDownloadError>> }
       /\ \A i \in DOMAIN net, how \in BlobOutcomes \ {"clicked"} :
             DownloadBlob(i, how) => notice' = <<NoticeDownloadError>>
       /\ \A i \in DOMAIN net, how \in DeleteFailures :
             DeleteFail(i, how)
                 => /\ notice' \in { <<NoticeDeleteFailed>>, <<NoticeDeleteError>> }
                    /\ net[i].live => ~loading' /\ deleteConfirmation' = <<>>
       /\ \A i \in DOMAIN net, how \in UploadOutcomes \ {"ok"} :
             (UploadSettle(i, how) /\ net[i].joined /\ net[i].live)
                 => error' = << UploadError(net[i].name, how) >> /\ ~loading']_vars

\* A tree fetch awaited by a delete or an upload has failed and set the error
\* flag, and a delete has just failed with its notice; both handlers ended.
C25_Witness ==
    /\ error = <<ErrLoadingWorkspace>>
    /\ notice = <<NoticeDeleteFailed>>
    /\ ~loading /\ deleteConfirmation = <<>> /\ net = <<>>

\* C26: Selected File changes only when a preview succeeds (set to the file
\* fetched), when the viewer is closed (cleared), and when the success of a
\* delete of the path it holds is processed (cleared); no other step, a tree
\* refresh that drops the path included, changes it.
C26_SelectedFileWriters ==
    [][selectedFile' # selectedFile
          => \/ \E i \in DOMAIN net, content \in DeleteContents :
                   /\ PreviewResolve(i, content)
                   /\ selectedFile' = selectionOf(net[i], content)
             \/ CloseViewer
             \/ \E i \in DOMAIN net :
                   /\ DeleteCompletes(i)
                   /\ selectedFile # <<>> /\ selectedFile[1].path = net[i].path
                   /\ selectedFile' = <<>>]_vars

\* C27: the Tree Model is written only when a tree fetch succeeds, and then
\* with the tree of the response: no step of a preview, a download, a delete
\* or an upload writes it, a delete and an upload changing it only through
\* the tree fetch they issue after their success.
C27_TreeWrittenByFetchOnly ==
    [][fileTree' # fileTree
          => \E i \in DOMAIN net, data \in OperationsTreeBodies :
                /\ TreeResolve(i, data)
                /\ net[i].live
                /\ fileTree' = treeOrEmpty(data)]_vars

\* The tree fetch issued after a delete or an upload has replaced the tree,
\* with a file in the viewer and other operations in flight.
C27_Witness == fileTree = TreeB /\ selectedFile # <<>> /\ OperationKinds # {}

\* A drag event is handled.
DragStep ==
    \E files \in DraggedFiles :
        \/ handleDragEnter(files)
        \/ handleDragOver(files)
        \/ handleDragLeave(files)
        \/ handleDrop(files)

\* C28: drag and drop does nothing. Drag State is false in every state, and
\* a drag-enter, drag-over, drag-leave or drop, with or without files,
\* leaves the tree, the expansion, the Selected File, the flags, the pending
\* confirmation and the timer as they were, issues no request and raises no
\* notice; the event itself has its default prevented and goes no further.
C28_DragNoOp ==
    /\ [](~isDragOver)
    /\ [][DragStep
            => /\ UNCHANGED <<mounted, isOpen, fileTree, expandedFolders, selectedFile,
                              loading, error, deleteConfirmation, isDragOver,
                              intervals, net, objectUrls>>
               /\ notice' = <<>>
               /\ dragEvent'[1].defaultPrevented /\ dragEvent'[1].propagationStopped]_vars

\* Files were dropped on the panel while a file was in the viewer and
\* requests were in flight.
C28_Witness ==
    /\ dragEvent # <<>> /\ dragEvent[1].type = "drop" /\ dragEvent[1].files > 0
    /\ selectedFile # <<>> /\ net # <<>> /\ loading

RECURSIVE Preorder(_, _, _)
\* Every node of a tree in depth-first order, siblings in the order of the
\* tree, each with its depth and the paths of the folders above it.
Preorder(nodes, depth, ancestors) ==
    IF nodes = <<>> THEN <<>>
    ELSE LET node == Head(nodes)
         IN  << [node |-> node, depth |-> depth, ancestors |-> ancestors] >>
             \o Preorder(node.children, depth + 1, ancestors \cup {node.path})
             \o Preorder(Tail(nodes), depth, ancestors)

\* The nodes whose ancestors are all in expanded, as rows at their depth.
Projection(tree, expanded) ==
    LET shown == SelectSeq(Preorder(tree, 0, {}), LAMBDA r : r.ancestors \subseteq expanded)
    IN  [k \in DOMAIN shown |-> [node |-> shown[k].node, level |-> shown[k].depth]]

\* C29: the rows on screen are a projection of the Tree Model and the
\* Expansion State: a node has a row iff every folder above it is expanded,
\* the rows follow the order of the tree depth first, siblings in their
\* order, and the row of a node at depth d has level d.
C29_RenderIsProjection ==
    /\ renderFileTree(fileTree, 0) = Projection(fileTree, expandedFolders)
    /\ (mounted /\ isOpen /\ error = <<>>) => VisibleRows = Projection(fileTree, expandedFolders)

\* The nested tree is shown with the inner folder expanded and the outer one
\* collapsed: the inner folder and what it holds have no row.
C29_Witness ==
    /\ mounted /\ isOpen /\ error = <<>>
    /\ fileTree = TreeNested
    /\ "docs/docs" \in expandedFolders /\ "docs" \notin expandedFolders
    /\ Len(VisibleRows) = 2

C31_NoDeleteNoUploadAsShipped ==
    /\ deleteConfirmation = <<>>
    /\ \A i \in DOMAIN net :
          /\ net[i].kind \notin {"delete", "upload"}
          /\ net[i].after \notin {"delete", "upload"}

\* Files were dropped on the panel while a download was in flight and a
\* file was in the viewer.
C31_Witness ==
    /\ dragEvent # <<>> /\ dragEvent[1].type = "drop" /\ dragEvent[1].files > 0
    /\ selectedFile # <<>>
    /\ \E i \in DOMAIN net : net[i].kind = "download"

\* C32: at most one polling timer is live, and one is live exactly when the
\* panel is mounted and open, whatever sequence of renders, teardowns, opens
\* and closes led there.
C32_OneTimerIffOpen ==
    /\ Len(intervals) <= 1
    /\ (intervals # <<>>) = (mounted /\ isOpen)

\* The panel was opened twice and closed again: the fetches of both openings
\* are still in flight and no timer is left.
C32_Witness ==
    /\ mounted /\ ~isOpen /\ intervals = <<>>
    /\ Len(net) = 2 /\ \A i \in DOMAIN net : net[i].kind = "tree" /\ net[i].live

\* How many tree fetches of the rendered panel are in flight.
LiveTreeFetches(requests) ==
    Cardinality({ j \in DOMAIN requests : requests[j].kind = "tree" /\ requests[j].live })

\* C33: a step in which the panel issues a tree fetch leaves the error null,
\* whatever set it before, and the error becomes non-null only in a step in
\* which a tree fetch fails or the first POST of an upload fails.
C33_ErrorClearedAtIssue ==
    /\ [][LiveTreeFetches(net') > LiveTreeFetches(net) => error' = <<>>]_vars
    /\ [][(error' # <<>> /\ error' # error)
            => \/ \E i \in DOMAIN net : TreeReject(i) /\ net[i].live
               \/ \E i \in DOMAIN net, how \in UploadOutcomes \ {"ok"} :
                     UploadSettle(i, how) /\ net[i].joined /\ net[i].live]_vars

\* An upload failed, one of its POSTs is still in flight, and a refresh
\* issued since has cleared the error the failure had set.
C33_Witness ==
    /\ error = <<>>
    /\ \E i \in DOMAIN net : net[i].kind = "upload" /\ ~net[i].joined /\ net[i].live
    /\ \E j \in DOMAIN net : net[j].kind = "tree" /\ net[j].live

\* The DELETE requests in flight.
DeletesInFlight == { i \in DOMAIN net : net[i].kind = "delete" }

\* C34 (as claimed): one staged confirmation leads to at most one DELETE
\* request; a confirm invoked while the DELETE of that confirmation is in
\* flight issues no second one.
C34_OneDeletePerConfirmation == Cardinality(DeletesInFlight) <= 1

\* C35: when the DELETE of a confirmed delete succeeds, the handler writes
\* none of Selected File, loading and the pending confirmation in that step:
\* it issues the tree fetch, and only the step in which that fetch settles,
\* resolved or rejected, clears Selected File (if at all), resets loading and
\* dismisses the confirmation. A DELETE that fails, by its status or by the
\* network, dismisses the confirmation too.
C35_DeleteOrdering ==
    [][/\ \A i \in DOMAIN net :
             DeleteResolve(i)
                 => /\ UNCHANGED <<selectedFile, loading, deleteConfirmation>>
                    /\ LiveTreeFetches(net') = LiveTreeFetches(net) + (IF net[i].live THEN 1 ELSE 0)
       /\ \A i \in DOMAIN net :
             DeleteCompletes(i)
                 => /\ ~loading' /\ deleteConfirmation' = <<>>
                    /\ selectedFile' \in { selectedFile, <<>> }
       /\ \A i \in DOMAIN net, how \in DeleteFailures :
             (DeleteFail(i, how) /\ net[i].live)
                 => /\ ~loading' /\ deleteConfirmation' = <<>>
                    /\ UNCHANGED selectedFile]_vars

\* The DELETE succeeded and the tree fetch that followed it failed: the error
\* is shown, loading is reset and the confirmation dismissed.
C35_Witness ==
    /\ error = <<ErrLoadingWorkspace>>
    /\ deleteConfirmation = <<>> /\ ~loading /\ net = <<>>
    /\ selectedFile # <<>>

\* A preview, a delete or an upload of the rendered panel has not reached its
\* end: its request, or the tree fetch it awaits, is in flight.
LoadingOperationInFlight ==
    \E i \in DOMAIN net :
        /\ net[i].live
        /\ \/ net[i].kind \in {"preview", "delete"}
           \/ net[i].kind = "upload" /\ net[i].joined
           \/ net[i].kind = "tree" /\ net[i].after \in {"delete", "upload"}

\* C36: the loading flag is never stuck. Provided every request completes,
\* a set flag is reset again, and the flag is false in every state in which
\* no preview, upload or delete is in flight.
C36_LoadingNeverStuck ==
    /\ loading ~> ~loading
    /\ [](~LoadingOperationInFlight => ~loading)

\* A preview, the confirmed delete and the tree fetch after it have all
\* completed: nothing is in flight and loading is false.
C36_Witness ==
    /\ ~loading /\ net = <<>>
    /\ selectedFile # <<>> /\ deleteConfirmation = <<>> /\ fileTree = TreeB

\* C37 (as claimed): when a tree fetch succeeds with a body that has no tree
\* field, or an empty tree, the Tree Model becomes the empty sequence and the
\* panel shows the empty-workspace view, not the previous tree and not the
\* error view.
C37_NoTreeShowsEmptyView ==
    [][\A i \in DOMAIN net, data \in TreeBodies :
          (TreeResolve(i, data) /\ net[i].live /\ treeOrEmpty(data) = <<>>)
              => /\ fileTree' = <<>>
                 /\ panelContent' = "workspace-empty"]_vars

\* C38: createNewConversation puts the new entry, with its id made from the
\* clock, at the front of the list and selects it in the step that issues the
\* POST; a failed POST changes neither the list nor the selection; a POST
\* that succeeds puts the server's title and timestamp in the entries that
\* carry the local id, and every entry of the list keeps its id and place.
C38_AddConversationOptimistic ==
    /\ [][\A customTitle \in SidebarTitles :
            createNewConversation(customTitle)
            => /\ Len(conversations') = Len(conversations) + 1
               /\ Tail(conversations') = conversations
               /\ Head(conversations').id = LocalId(now)
               /\ Head(conversations').title =
                      (IF customTitle = "" THEN "New Conversation" ELSE customTitle)
               /\ selectedConversation' = <<LocalId(now)>>
               /\ Len(sidebarNet') = Len(sidebarNet) + 1
               /\ SubSeq(sidebarNet', 1, Len(sidebarNet)) = sidebarNet
               /\ sidebarNet'[Len(sidebarNet')].kind = "create"
               /\ sidebarNet'[Len(sidebarNet')].id = LocalId(now)]_vars
    /\ [][\A i \in DOMAIN sidebarNet :
            CreateFail(i) => /\ conversations' = conversations
                             /\ selectedConversation' = selectedConversation]_vars
    /\ [][\A i \in DOMAIN sidebarNet, apiConv \in ServerRecords :
            CreateResolve(i, apiConv)
            => /\ Len(conversations') = Len(conversations)
               /\ selectedConversation' = selectedConversation
               /\ \A k \in DOMAIN conversations :
                      /\ conversations'[k].id = conversations[k].id
                      /\ conversations[k].id # sidebarNet[i].id
                         => conversations'[k] = conversations[k]
                      /\ conversations[k].id = sidebarNet[i].id
                         => /\ conversations'[k].title = apiConv.title
                            /\ conversations'[k].timestamp = apiConv.timestamp]_vars

\* A POST succeeded: an entry with a local id shows the server's title, and
\* it is the selected conversation.
C38_Witness ==
    \E k \in DOMAIN conversations, apiConv \in ServerRecords :
        /\ conversations[k].id[1] = "conv"
        /\ conversations[k].title = apiConv.title
        /\ selectedConversation = <<conversations[k].id>>

\* C39 (as claimed): a DELETE that succeeds takes the entries with its id out
\* of the list as it is then, and nothing else; a DELETE that fails changes
\* neither the list nor the selection.
C39_DeleteRemovesOnlyTheId ==
    [][\A i \in DOMAIN sidebarNet :
          /\ DeleteConversationResolve(i)
             => conversations' = WithoutId(conversations, sidebarNet[i].id)
          /\ DeleteConversationFail(i)
             => /\ conversations' = conversations
                /\ selectedConversation' = selectedConversation]_vars

====
